---- MODULE Spec2Model ----
(***************************************************************************)
(* wb-mcu-fw-updater: the update decision, the in-bootloader flasher, the  *)
(* update executor and the prober, as state machines.                      *)
(*                                                                         *)
(* Each subsystem has its own program counter; a subsystem whose counter   *)
(* is "idle" takes no step.  The specifications SpecDecide, SpecFlash,      *)
(* SpecDirect, SpecOrch and SpecProbe start one subsystem each.            *)
(***************************************************************************)
EXTENDS Integers, Sequences, FiniteSets, TLC

VARIABLES
    \* ---- is_reflash_necessary (update_monitor.py) ----
    dec_pc,            \* "idle" | "call" | "done"
    actual_version,    \* argument actual_version, parsed
    provided_version,  \* argument provided_version, parsed
    force_reflash,     \* argument force_reflash
    allow_downgrade,   \* argument allow_downgrade
    user_input,        \* what the user types when asked
    decision,          \* the returned pair and what ask_user did
    \* ---- direct_flash (update_monitor.py) and the flasher (fw_flasher.py) ----
    fl_pc,             \* "idle" | "bl_settings" | "erase_uart" | "erase_all" | "parse"
                       \* | "check" | "info" | "data" | "done" | "failed"
    df_args,           \* the arguments of direct_flash
    port_settings,     \* device.get_port_settings() at the call
    in_bl_settings,    \* the settings the flasher is built with, "none": not chosen yet
    fw_file,           \* the bytes of the file at fw_fpath
    info_block,        \* the INFO block, once parsed
    chunks,            \* the DATA chunks, once parsed
    chunk_i,           \* index of the next chunk to send
    bus,               \* every write attempt put on the bus, in order
    fl_error,          \* the exception direct_flash ended with, or "none"
    prompts,           \* every call of ask_user made by direct_flash
    free_space,        \* the value read from the free-space register, -1: not read
    \* ---- _do_flash (update_monitor.py) ----
    orch_pc,           \* "idle" | "check" | "reboot" | "flash_bl" | "flash_main"
                       \* | "flash_released" | "restore" | "done" | "raised"
    wbfw_mode,         \* downloaded_wbfw.mode: "fw" | "bootloader"
    wbfw_version,      \* downloaded_wbfw.version
    actual_bl_version, \* the bootloader version the device reports
    latest_remote_version,  \* the latest bootloader version on the remote
    local_version_exists,   \* is_version_exist(fw_sig, local_version)
    interactive,       \* is_interactive_shell()
    orch_force,        \* argument force
    orch_input,        \* what the user types when asked
    bl_to_flash,       \* the version of the bootloader image to flash first, or NoImage
    do_check_userdata_saving,
    orch_log,          \* reboots and direct_flash calls, in order
    orch_error,        \* the exception _do_flash ended with, or "none"
    connection,        \* modbus_connection: its settings and response_timeout
    serial,            \* the pyserial object of the port: settings and timeout applied
    initial_settings,  \* initial_port_settings, initial_response_timeout, or NoCapture
    \* ---- probe_all_devices (update_monitor.py) and the identity store ----
    pb_pc,             \* "idle" | "config" | "probing" | "returned" | "raised"
    uart_params,       \* the serial settings of the port in the driver configuration
    enabled,           \* the "enabled" flag of each configured device
    devices_on_port,   \* the list get_devices_on_driver returns for the port
    pb_i,              \* index in devices_on_port of the device being probed
    step,              \* "sn" | "fw_sig" | "rest" | "save" | "probe"
    cur,               \* what the device probed last answered, and its bucket
    result,            \* the buckets
    db,                \* db.container
    pb_error           \* the exception probe_all_devices ended with, or "none"

\* The identity store on its own: JsonDB and its FixedLengthList
VARIABLES st_pc, MAXLEN, container, saved, evicted, last_save, got

\* Recovery of the devices found in bootloader: _recover_all
VARIABLES rc_pc, in_bootloader, rc_i, cmd_status, rc_log, rc_error

\* One call of a method of the Modbus bindings (WBModbusDeviceBase)
VARIABLES mb_pc, mb_call, mb_env, mb_settings, mb_initial, mb_i, mb_log, mb_result

\* The transport: PyserialBackendInstrument._communicate and the silence clock
VARIABLES handle_local_echo, since_read, since_frame, last_outcome, last_frame

\* Serial-port arbitration: stop_clients, the work on the port, resume_clients
VARIABLES ar_pc, holders, ar_force, ar_input, termios, initial_termios, ar_log, ar_error

\* The downloader: get_request and _do_download
VARIABLES dl_pc, dl_call, dl_env, dl_i, dl_log, dl_result

\* The bootloader probe of one connection and the wait for a flashed device
VARIABLES wk_pc, wk_call, wk_conn, wk_before, wk_initial, wk_tries, wk_expired, wk_answer, wk_log, wk_result

\* The transactions of one stopbits-tolerant instrument
VARIABLES sb_pc, sb_echo, sb_configured, sb_stopbits, sb_initial, out_waiting, in_waiting, sb_expired, sb_n, sb_log, sb_result

\* The spinner context: its body, its stop flag, its worker thread and the progress bar
VARIABLES sp_pc, sp_work, sp_exc, stop_event, worker_pc, pbar

\* The scan of the driver configuration
VARIABLES cf_pc, cf_i, cf_j, cf_devices, found_devices, cf_last, cf_error

\* The identity store during flash_alive_device and _update_all
VARIABLES ua_pc, ua_call, ua_n, ua_i, ua_db, ua_reboot

\* The files of the saving directory during _update_all
VARIABLES fs_pc, fs_i, fs_files, fs_cache, to_perform, fs_j, fs_flash

decVars == <<dec_pc, actual_version, provided_version, force_reflash,
             allow_downgrade, user_input, decision>>

flVars == <<fl_pc, df_args, port_settings, in_bl_settings, fw_file, info_block, chunks, chunk_i, bus, fl_error,
            prompts, free_space>>

orchVars == <<orch_pc, wbfw_mode, wbfw_version, actual_bl_version,
              latest_remote_version, local_version_exists, interactive, orch_force,
              orch_input, bl_to_flash, do_check_userdata_saving, orch_log, orch_error,
              connection, serial, initial_settings>>

pbVars == <<pb_pc, uart_params, enabled, devices_on_port, pb_i, step, cur, result,
            db, pb_error>>

stVars == <<st_pc, MAXLEN, container, saved, evicted, last_save, got>>

rcVars == <<rc_pc, in_bootloader, rc_i, cmd_status, rc_log, rc_error>>

mbVars == <<mb_pc, mb_call, mb_env, mb_settings, mb_initial, mb_i, mb_log, mb_result>>

trVars == <<handle_local_echo, since_read, since_frame, last_outcome, last_frame>>

arVars == <<ar_pc, holders, ar_force, ar_input, termios, initial_termios, ar_log, ar_error>>

dlVars == <<dl_pc, dl_call, dl_env, dl_i, dl_log, dl_result>>

coreVars == <<decVars, flVars, orchVars, pbVars>>

\* The groups of the single operations
wkVars == <<wk_pc, wk_call, wk_conn, wk_before, wk_initial, wk_tries, wk_expired, wk_answer, wk_log, wk_result>>
sbVars == <<sb_pc, sb_echo, sb_configured, sb_stopbits, sb_initial, out_waiting, in_waiting, sb_expired, sb_n, sb_log, sb_result>>
spVars == <<sp_pc, sp_work, sp_exc, stop_event, worker_pc, pbar>>
cfVars == <<cf_pc, cf_i, cf_j, cf_devices, found_devices, cf_last, cf_error>>
uaVars == <<ua_pc, ua_call, ua_n, ua_i, ua_db, ua_reboot>>
fsVars == <<fs_pc, fs_i, fs_files, fs_cache, to_perform, fs_j, fs_flash>>

lateVars == <<wkVars, sbVars, spVars, cfVars, uaVars, fsVars>>
restOfWk == <<coreVars, stVars, rcVars, mbVars, trVars, arVars, dlVars, sbVars, spVars, cfVars, uaVars, fsVars>>
restOfSb == <<coreVars, stVars, rcVars, mbVars, trVars, arVars, dlVars, wkVars, spVars, cfVars, uaVars, fsVars>>
restOfSp == <<coreVars, stVars, rcVars, mbVars, trVars, arVars, dlVars, wkVars, sbVars, cfVars, uaVars, fsVars>>
restOfCf == <<coreVars, stVars, rcVars, mbVars, trVars, arVars, dlVars, wkVars, sbVars, spVars, uaVars, fsVars>>
restOfUa == <<coreVars, stVars, rcVars, mbVars, trVars, arVars, dlVars, wkVars, sbVars, spVars, cfVars, fsVars>>
restOfFs == <<coreVars, stVars, rcVars, mbVars, trVars, arVars, dlVars, wkVars, sbVars, spVars, cfVars, uaVars>>

libVars == <<stVars, rcVars, mbVars, trVars, arVars, dlVars, lateVars>>

\* What the actions of one group leave alone
restOfSt == <<coreVars, rcVars, mbVars, trVars, arVars, dlVars, lateVars>>
restOfRc == <<mbVars, trVars, arVars, dlVars, lateVars>>
restOfMb == <<coreVars, stVars, rcVars, trVars, arVars, dlVars, lateVars>>
restOfTr == <<coreVars, stVars, rcVars, mbVars, arVars, dlVars, lateVars>>
restOfAr == <<coreVars, stVars, rcVars, mbVars, trVars, dlVars, lateVars>>
restOfDl == <<coreVars, stVars, rcVars, mbVars, trVars, arVars, lateVars>>

vars == <<decVars, flVars, orchVars, pbVars, libVars>>

(***************************************************************************)
(* Bounds of the model.                                                    *)
(***************************************************************************)
MaxMajor == 2
MaxMinor == 1
MaxFileBytes == 308    \* longest firmware file, in bytes
MaxSeed == 1           \* firmware contents are drawn from MaxSeed + 1 patterns
MaxDirectChunks == 2   \* most chunks of a file handed to direct_flash with flags
MaxAvail == 3          \* largest value of the free-space register
MaxDevices == 2        \* devices in the driver configuration
MaxSlaveIds == 3       \* slave ids of the devices saved to the identity store
MaxCap == 3            \* largest cap of the identity store
MaxWait == 2           \* longest write or read of a transaction, in half character times

(***************************************************************************)
(* Versions.  semantic_version.Version orders by major, minor, patch and   *)
(* then puts a pre-release before the release of the same triple.  A       *)
(* version is <<major, minor, patch, rel>>, rel = 0 for a pre-release and  *)
(* 1 for a release.                                                        *)
(***************************************************************************)
Versions == (1..MaxMajor) \X (0..MaxMinor) \X (0..MaxMinor) \X {0, 1}

Major(v) == v[1]

RECURSIVE LexLess(_, _, _)
LexLess(a, b, i) ==
    IF i > Len(a) THEN FALSE
    ELSE IF a[i] < b[i] THEN TRUE
    ELSE IF a[i] > b[i] THEN FALSE
    ELSE LexLess(a, b, i + 1)

VersionLess(a, b) == LexLess(a, b, 1)

(***************************************************************************)
(* ask_user: the question is hidden and no input is read when force_yes;   *)
(* otherwise the answer counts as yes when upper() of it starts with "Y".  *)
(***************************************************************************)
UserInputs == {"Y", "y", "n"}
PromptInputs == {"y", "n"}

StartsWithY(s) == s \in {"Y", "y", "yes", "Yes", "YES"}

ask_user(force_yes, input) == force_yes \/ StartsWithY(input)

(***************************************************************************)
(* is_reflash_necessary: the comparison, then the major-version gate.      *)
(* asked: ask_user was called; input_read: the user was really prompted.   *)
(***************************************************************************)
CompareVersions(actual, provided, force, allow) ==
    IF actual = provided
    THEN IF force THEN [do_flash |-> TRUE, skip_reason |-> "none"]
                  ELSE [do_flash |-> FALSE, skip_reason |-> "is_actual"]
    ELSE IF VersionLess(actual, provided)
    THEN [do_flash |-> TRUE, skip_reason |-> "none"]
    ELSE IF allow
    THEN [do_flash |-> TRUE, skip_reason |-> "none"]
    ELSE [do_flash |-> FALSE, skip_reason |-> "gone_ahead"]

is_reflash_necessary_no_gate(actual, provided, force, allow, input) ==
    LET c == CompareVersions(actual, provided, force, allow)
    IN  [do_flash |-> c.do_flash, skip_reason |-> c.skip_reason,
         asked |-> FALSE, input_read |-> FALSE]

is_reflash_necessary_no_downgrade_check(actual, provided, force, allow, input) ==
    LET c == CompareVersions(actual, provided, force, TRUE)
    IN  IF c.do_flash /\ Major(actual) # Major(provided)
        THEN [do_flash |-> ask_user(force, input), skip_reason |-> c.skip_reason,
              asked |-> TRUE, input_read |-> ~force]
        ELSE [do_flash |-> c.do_flash, skip_reason |-> c.skip_reason,
              asked |-> FALSE, input_read |-> FALSE]

is_reflash_necessary(actual, provided, force, allow, input) ==
    LET c == CompareVersions(actual, provided, force, allow)
    IN  IF c.do_flash /\ Major(actual) # Major(provided)
        THEN [do_flash |-> ask_user(force, input), skip_reason |-> c.skip_reason,
              asked |-> TRUE, input_read |-> ~force]
        ELSE [do_flash |-> c.do_flash, skip_reason |-> c.skip_reason,
              asked |-> FALSE, input_read |-> FALSE]

NoDecision == [do_flash |-> FALSE, skip_reason |-> "none",
               asked |-> FALSE, input_read |-> FALSE]

(***************************************************************************)
(* The flasher: ModbusInBlFlasher (fw_flasher.py) driven by direct_flash   *)
(* (update_monitor.py).                                                    *)
(***************************************************************************)
INFO_BLOCK_START == 4096
INFO_BLOCK_LENGTH == 16
DATA_BLOCK_START == 8192
DATA_BLOCK_LENGTH == 68
UART_SETTINGS_RESET_REG == 1000
EEPROM_ERASE_REG == 1001
ALLOWED_UNSUCCESSFUL_TRIES == 2

Min(a, b) == IF a < b THEN a ELSE b

\* Serial settings, written as in the driver configuration ("9600N2").
SerialSettings_9600_N_2 == "9600N2"
Settings == {SerialSettings_9600_N_2, "115200N2"}

\* What one attempt on the bus ends with.
ModbusErrors == {"NoResponseError", "IllegalRequestError", "SlaveReportedException"}
Outcomes == {"ok"} \cup ModbusErrors

(***************************************************************************)
(* force(): the decorator of every typed Modbus operation.  outs[i] is     *)
(* what attempt i ends with; the loop returns at the first success and     *)
(* otherwise goes on to the next attempt.  The result is the sequence of   *)
(* the attempts made; the operation ends as its last attempt does.         *)
(***************************************************************************)
\* force: errtypes = (minimalmodbus.ModbusException, ValueError)
errtypes == ModbusErrors \cup {"ValueError"}

RECURSIVE force_from_retrying_after_any_error(_, _, _)
force_from_retrying_after_any_error(outs, i, tries) ==
    IF i > tries THEN <<>>
    ELSE IF outs[i] = "ok" THEN <<"ok">>
    ELSE <<outs[i]>> \o force_from_retrying_after_any_error(outs, i + 1, tries)

RECURSIVE force_from(_, _, _)
force_from(outs, i, tries) ==
    IF i > tries THEN <<>>
    ELSE IF outs[i] = "ok" \/ outs[i] \notin errtypes THEN <<outs[i]>>
    ELSE <<outs[i]>> \o force_from(outs, i + 1, tries)

force(outs) == force_from(outs, 1, ALLOWED_UNSUCCESSFUL_TRIES)

Last(s) == s[Len(s)]

AttemptOutcomes == [1..ALLOWED_UNSUCCESSFUL_TRIES -> Outcomes]

\* The bus records of the attempts of one write.
BusWrites(reg, idx, n, attempts) ==
    [k \in 1..Len(attempts) |-> [reg |-> reg, idx |-> idx, len |-> n, out |-> attempts[k]]]

(***************************************************************************)
(* Firmware files: MkFile(L, seed) is a file of L bytes.                   *)
(***************************************************************************)
MkFile(L, seed) == [i \in 1..L |-> (i * 7 + seed * 13 + (i \div 5)) % 256]

\* minimalmodbus._bytestring_to_valuelist(raw_bytes, n): register k is made of
\* the bytes 2k-1 and 2k of the file, kept here as the pair of them.
bytestring_to_valuelist(bytes, n) ==
    [k \in 1..n |-> <<bytes[2 * k - 1], bytes[2 * k]>>]

\* The registers written back as bytes, used to state the round trip.
valuelist_to_bytestring(regs) ==
    [i \in 1..(2 * Len(regs)) |-> regs[(i + 1) \div 2][2 - (i % 2)]]

read_to_u16s_any_size(file) ==
    [err |-> "none", regs |-> bytestring_to_valuelist(file, Len(file) \div 2)]

\* ModbusInBlFlasher._read_to_u16s
read_to_u16s(file) ==
    IF Len(file) % 2 = 1
    THEN [err |-> "IncorrectFwError", regs |-> <<>>]
    ELSE [err |-> "none", regs |-> bytestring_to_valuelist(file, Len(file) \div 2)]

\* flash_in_bl: fw_as_regs[:INFO_BLOCK_LENGTH], fw_as_regs[INFO_BLOCK_LENGTH:]
InfoPart(regs) == SubSeq(regs, 1, Min(INFO_BLOCK_LENGTH, Len(regs)))
DataPart(regs) == SubSeq(regs, INFO_BLOCK_LENGTH + 1, Len(regs))

\* _send_data: [regs_row[i:i+chunk_size] for i in range(0, len(regs_row), chunk_size)]
RECURSIVE chunks_from(_, _, _)
chunks_from(regs_row, i, chunk_size) ==
    IF i > Len(regs_row) THEN <<>>
    ELSE <<SubSeq(regs_row, i, Min(i + chunk_size - 1, Len(regs_row)))>>
         \o chunks_from(regs_row, i + chunk_size, chunk_size)

split_chunks_padded(regs_row) ==
    LET cs == chunks_from(regs_row, 1, DATA_BLOCK_LENGTH)
    IN  [k \in 1..Len(cs) |->
            cs[k] \o [j \in 1..(DATA_BLOCK_LENGTH - Len(cs[k])) |-> 0]]

split_chunks(regs_row) == chunks_from(regs_row, 1, DATA_BLOCK_LENGTH)

\* flasher.is_userdata_preserved: the free-space register against the chunks to write.
is_userdata_preserved(available_chunks, n_chunks) == available_chunks > n_chunks

DecideIdle ==
    /\ dec_pc = "idle"
    /\ actual_version = <<1, 0, 0, 1>>
    /\ provided_version = <<1, 0, 0, 1>>
    /\ force_reflash = FALSE
    /\ allow_downgrade = FALSE
    /\ user_input = ""
    /\ decision = NoDecision

DirectFlashArgs ==
    [erase_all_settings : BOOLEAN, erase_uart_only : BOOLEAN,
     force : BOOLEAN, do_check_userdata_saving : BOOLEAN]

NoArgs == [erase_all_settings |-> FALSE, erase_uart_only |-> FALSE,
           force |-> FALSE, do_check_userdata_saving |-> FALSE]

FlashIdle ==
    /\ fl_pc = "idle"
    /\ df_args = NoArgs
    /\ port_settings = SerialSettings_9600_N_2
    /\ in_bl_settings = "none"
    /\ fw_file = <<>>
    /\ info_block = <<>>
    /\ chunks = <<>>
    /\ chunk_i = 0
    /\ bus = <<>>
    /\ fl_error = "none"
    /\ prompts = <<>>
    /\ free_space = -1

Decide ==
    /\ dec_pc = "call"
    /\ decision' = is_reflash_necessary(actual_version, provided_version,
                                        force_reflash, allow_downgrade, user_input)
    /\ dec_pc' = "done"
    /\ UNCHANGED <<actual_version, provided_version, force_reflash,
                   allow_downgrade, user_input>>
    /\ UNCHANGED <<flVars, orchVars, pbVars, libVars>>

Fail(err) == fl_pc' = "failed" /\ fl_error' = err

(***************************************************************************)
(* direct_flash, the choice of in_bl_settings: when the connection is not  *)
(* at 9600-N-2 the bootloader version is read once, unforced, and a        *)
(* ModbusException makes the flasher use 9600-N-2.                         *)
(***************************************************************************)
SelectBlSettings ==
    /\ fl_pc = "bl_settings"
    /\ IF port_settings # SerialSettings_9600_N_2
       THEN \E out \in Outcomes :
                in_bl_settings' = IF out \in ModbusErrors THEN SerialSettings_9600_N_2
                                  ELSE port_settings
       ELSE in_bl_settings' = port_settings
    /\ fl_pc' = "erase_uart"
    /\ UNCHANGED <<df_args, port_settings, fw_file, info_block, chunks, chunk_i, bus,
                   fl_error, prompts, free_space>>
    /\ UNCHANGED <<decVars, orchVars, pbVars, libVars>>

\* direct_flash._ensure: TRUE to go on, FALSE to raise UserCancelledError.
ensure_never_raises(force_yes, input) == TRUE

ensure(force_yes, input) == ask_user(force_yes, input)

bootloader_cmd_error_untranslated(attempts) ==
    IF Last(attempts) = "ok" THEN "none" ELSE "BootloaderCmdError"

\* _perform_bootloader_cmd: what the command ends with, given its attempts.
bootloader_cmd_error(attempts) ==
    IF Last(attempts) = "ok" THEN "none"
    ELSE IF Last(attempts) = "IllegalRequestError" THEN "NotInBootloaderError"
    ELSE "BootloaderCmdError"

(***************************************************************************)
(* direct_flash, "if <flag> and _ensure(msg): flasher.<cmd>()": asks the   *)
(* user only when the flag is set, raises UserCancelledError when the      *)
(* answer is no, and otherwise writes 1 to the register of the command.    *)
(***************************************************************************)
EraseStep(here, flag, reg, next) ==
    /\ fl_pc = here
    /\ IF ~flag
       THEN /\ fl_pc' = next
            /\ UNCHANGED <<bus, fl_error, prompts>>
       ELSE \E input \in (IF df_args.force THEN {""} ELSE PromptInputs) :
            /\ prompts' = Append(prompts, [q |-> here, input |-> input,
                                           shown |-> ~df_args.force])
            /\ IF ~ensure(df_args.force, input)
               THEN Fail("UserCancelledError") /\ UNCHANGED bus
               ELSE \E outs \in AttemptOutcomes :
                    LET attempts == force(outs)
                        err == bootloader_cmd_error(attempts)
                    IN  /\ bus' = bus \o BusWrites(reg, 0, 1, attempts)
                        /\ IF err = "none"
                           THEN fl_pc' = next /\ UNCHANGED fl_error
                           ELSE Fail(err)
    /\ UNCHANGED <<df_args, port_settings, in_bl_settings, fw_file, info_block, chunks, chunk_i, free_space>>
    /\ UNCHANGED <<decVars, orchVars, pbVars, libVars>>

EraseUart ==
    EraseStep("erase_uart", df_args.erase_uart_only, UART_SETTINGS_RESET_REG, "erase_all")

EraseAll ==
    EraseStep("erase_all", df_args.erase_all_settings, EEPROM_ERASE_REG, "parse")

\* ParsedWBFW(fw_fpath): read the file and cut it into INFO and DATA chunks.
ParseWBFW ==
    /\ fl_pc = "parse"
    /\ LET r == read_to_u16s(fw_file)
       IN  IF r.err # "none"
           THEN Fail(r.err) /\ UNCHANGED <<info_block, chunks>>
           ELSE /\ info_block' = InfoPart(r.regs)
                /\ chunks' = split_chunks(DataPart(r.regs))
                /\ fl_pc' = "check"
                /\ UNCHANGED fl_error
    /\ UNCHANGED <<df_args, port_settings, in_bl_settings, fw_file, chunk_i, bus, prompts, free_space>>
    /\ UNCHANGED <<decVars, orchVars, pbVars, libVars>>

\* direct_flash: the user-data check and its confirmation.
CheckUserdata ==
    /\ fl_pc = "check"
    /\ IF ~df_args.do_check_userdata_saving
       THEN /\ fl_pc' = "info"
            /\ UNCHANGED <<free_space, prompts, fl_error>>
       ELSE \E avail \in 0..MaxAvail :
            /\ free_space' = avail
            /\ IF is_userdata_preserved(avail, Len(chunks))
               THEN fl_pc' = "info" /\ UNCHANGED <<prompts, fl_error>>
               ELSE \E input \in (IF df_args.force THEN {""} ELSE PromptInputs) :
                    /\ prompts' = Append(prompts, [q |-> "userdata", input |-> input,
                                                   shown |-> ~df_args.force])
                    /\ IF ensure(df_args.force, input)
                       THEN fl_pc' = "info" /\ UNCHANGED fl_error
                       ELSE Fail("UserCancelledError")
    /\ UNCHANGED <<df_args, port_settings, in_bl_settings, fw_file, info_block, chunks, chunk_i, bus>>
    /\ UNCHANGED <<decVars, orchVars, pbVars, libVars>>

send_info_error_ignored(attempts) == "none"

\* _send_info: what the INFO write ends with, given its attempts.
send_info_error(attempts) ==
    IF Last(attempts) = "ok" THEN "none"
    ELSE IF Last(attempts) = "IllegalRequestError" THEN "NotInBootloaderError"
    ELSE "FlashingError"

\* ModbusInBlFlasher._send_info
SendInfo ==
    /\ fl_pc = "info"
    /\ IF Len(info_block) # INFO_BLOCK_LENGTH
       THEN Fail("IncorrectFwError") /\ UNCHANGED <<bus, chunk_i>>
       ELSE \E outs \in AttemptOutcomes :
            LET attempts == force(outs)
                err == send_info_error(attempts)
            IN  /\ bus' = bus \o BusWrites(INFO_BLOCK_START, 0, Len(info_block), attempts)
                /\ IF err # "none"
                   THEN Fail(err) /\ UNCHANGED chunk_i
                   ELSE /\ chunk_i' = 1
                        /\ fl_pc' = IF chunks = <<>> THEN "done" ELSE "data"
                        /\ UNCHANGED fl_error
    /\ UNCHANGED <<df_args, port_settings, in_bl_settings, fw_file, info_block, chunks, prompts, free_space>>
    /\ UNCHANGED <<decVars, orchVars, pbVars, libVars>>

\* ModbusInBlFlasher._send_data, one pass of its loop.
SendChunk ==
    /\ fl_pc = "data"
    /\ \E outs \in AttemptOutcomes :
        LET attempts == force(outs)
        IN  /\ bus' = bus \o BusWrites(DATA_BLOCK_START, chunk_i,
                                       Len(chunks[chunk_i]), attempts)
            /\ IF Last(attempts) # "ok"
               THEN Fail("FlashingError") /\ UNCHANGED chunk_i
               ELSE /\ chunk_i' = chunk_i + 1
                    /\ fl_pc' = IF chunk_i = Len(chunks) THEN "done" ELSE "data"
                    /\ UNCHANGED fl_error
    /\ UNCHANGED <<df_args, port_settings, in_bl_settings, fw_file, info_block, chunks, prompts, free_space>>
    /\ UNCHANGED <<decVars, orchVars, pbVars, libVars>>

FlashSteps == SelectBlSettings \/ EraseUart \/ EraseAll \/ ParseWBFW \/ CheckUserdata \/ SendInfo \/ SendChunk

(***************************************************************************)
(* The update executor: _do_flash and is_bl_update_required.               *)
(***************************************************************************)
MODE_FW == "fw"
MODE_BOOTLOADER == "bootloader"

\* No bootloader image chosen (bl_to_flash = None); also the version of an image
\* whose version _do_flash does not know.
NoImage == <<>>

\* semantic_version.Version("1.2.0")
UserdataCheckSince == <<1, 2, 0, 1>>

NoConnection == [settings |-> "none"]

NoCapture == [settings |-> "none", response_timeout |-> "none"]

\* response timeouts of a connection, in seconds
ResponseTimeouts == {"0.2", "0.5"}

OrchIdle ==
    /\ orch_pc = "idle"
    /\ wbfw_mode = MODE_FW
    /\ wbfw_version = <<1, 0, 0, 1>>
    /\ actual_bl_version = <<1, 0, 0, 1>>
    /\ latest_remote_version = <<1, 0, 0, 1>>
    /\ local_version_exists = TRUE
    /\ interactive = FALSE
    /\ orch_force = FALSE
    /\ orch_input = ""
    /\ bl_to_flash = NoImage
    /\ do_check_userdata_saving = FALSE
    /\ orch_log = <<>>
    /\ orch_error = "none"
    /\ connection = NoConnection
    /\ serial = NoConnection
    /\ initial_settings = NoCapture

\* is_bl_update_required, once the signature and the versions are read.
is_bl_update_required(local, latest, exists, is_interactive, force_yes, input) ==
    IF local = latest THEN FALSE
    ELSE IF ~exists THEN TRUE
    ELSE IF is_interactive THEN ask_user(force_yes, input)
    ELSE FALSE

OrchRaise(err) ==
    /\ orch_pc' = "raised"
    /\ orch_error' = err

(***************************************************************************)
(* _do_flash up to the reboot: the reads of the signature and of the       *)
(* bootloader version, the choice of a bootloader update for a firmware    *)
(* target, the downgrade check for a bootloader target.                    *)
(***************************************************************************)
DoFlashCheck ==
    /\ orch_pc = "check"
    /\ \E read_out \in Outcomes, download_ok \in BOOLEAN :
        IF read_out # "ok"
        THEN /\ OrchRaise(IF read_out = "IllegalRequestError"
                          THEN "TooOldDeviceError" ELSE read_out)
             /\ UNCHANGED <<bl_to_flash, do_check_userdata_saving>>
        ELSE IF wbfw_mode = MODE_BOOTLOADER
                /\ VersionLess(wbfw_version, actual_bl_version)
        THEN /\ OrchRaise("UpdateDeviceError")
             /\ UNCHANGED <<bl_to_flash, do_check_userdata_saving>>
        ELSE IF wbfw_mode = MODE_FW
                /\ is_bl_update_required(actual_bl_version, latest_remote_version,
                                         local_version_exists, interactive,
                                         orch_force, orch_input)
                /\ ~download_ok
        THEN /\ OrchRaise("WBRemoteStorageError")
             /\ UNCHANGED <<bl_to_flash, do_check_userdata_saving>>
        ELSE /\ bl_to_flash' =
                    IF wbfw_mode = MODE_FW
                       /\ is_bl_update_required(actual_bl_version, latest_remote_version,
                                                local_version_exists, interactive,
                                                orch_force, orch_input)
                    THEN latest_remote_version ELSE NoImage
             /\ do_check_userdata_saving' = ~VersionLess(actual_bl_version, UserdataCheckSince)
             /\ orch_pc' = "reboot"
             /\ UNCHANGED orch_error
    /\ initial_settings' = IF orch_pc' = "reboot"
                  THEN [settings |-> connection.settings,
                        response_timeout |-> connection.response_timeout]
                  ELSE initial_settings
    /\ UNCHANGED <<connection, serial>>
    /\ UNCHANGED <<wbfw_mode, wbfw_version, actual_bl_version, latest_remote_version,
                   local_version_exists, interactive, orch_force, orch_input, orch_log>>
    /\ UNCHANGED <<decVars, flVars, pbVars, libVars>>

\* modbus_connection.reboot_to_bootloader(): what its first slave_id read raises
RebootErrors == ModbusErrors

\* apply_serial_settings: a call of the connection puts its settings on the port
apply_serial_settings(port, conn) == [port EXCEPT !.settings = conn.settings]

after_reboot_skipping_the_bootloader(bl) == "flash_main"

\* _do_flash: "if bl_to_flash:" after the reboot
after_reboot(bl) == IF bl # NoImage THEN "flash_bl" ELSE "flash_main"

RebootToBootloader ==
    /\ orch_pc = "reboot"
    /\ \E out \in {"ok"} \cup RebootErrors :
        IF out = "ok"
        THEN /\ orch_log' = Append(orch_log, [ev |-> "reboot"])
             /\ orch_pc' = after_reboot(bl_to_flash)
             /\ UNCHANGED orch_error
        ELSE OrchRaise(out) /\ UNCHANGED orch_log
    /\ serial' = apply_serial_settings(serial, connection)
    /\ UNCHANGED <<connection, initial_settings>>
    /\ UNCHANGED <<wbfw_mode, wbfw_version, actual_bl_version, latest_remote_version,
                   local_version_exists, interactive, orch_force, orch_input,
                   bl_to_flash, do_check_userdata_saving>>
    /\ UNCHANGED <<decVars, flVars, pbVars, libVars>>

\* What a call of direct_flash ends with.
DirectFlashResults == {"ok", "UserCancelledError", "IncorrectFwError", "FlashingError",
                       "NotInBootloaderError", "BootloaderCmdError"}

\* One call of direct_flash made by _do_flash, as the log keeps it.
FlashCall(image, version, check, res) ==
    [ev |-> "direct_flash", image |-> image, version |-> version,
     check_userdata |-> check, res |-> res]

\* direct_flash: the flasher is another instrument on the port of the
\* connection, at the settings chosen for the bootloader
flasher_on_port(port, in_bl) == [port EXCEPT !.settings = in_bl]

DirectFlashCall(here, image, version, check, next) ==
    /\ orch_pc = here
    /\ \E res \in DirectFlashResults :
        /\ orch_log' = Append(orch_log, FlashCall(image, version, check, res))
        /\ IF res = "ok"
           THEN orch_pc' = next /\ UNCHANGED orch_error
           ELSE OrchRaise(res)
    /\ \E in_bl \in {connection.settings, SerialSettings_9600_N_2} :
          serial' = flasher_on_port(serial, in_bl)
    /\ UNCHANGED <<connection, initial_settings>>
    /\ UNCHANGED <<wbfw_mode, wbfw_version, actual_bl_version, latest_remote_version,
                   local_version_exists, interactive, orch_force, orch_input,
                   bl_to_flash, do_check_userdata_saving>>
    /\ UNCHANGED <<decVars, flVars, pbVars, libVars>>

\* direct_flash(bl_to_flash, ..., do_check_userdata_saving=False)
FlashBootloaderUpdate ==
    DirectFlashCall("flash_bl", MODE_BOOTLOADER, bl_to_flash, FALSE, "flash_main")

\* direct_flash(downloaded_wbfw.fpath, ...)
FlashRequested ==
    DirectFlashCall("flash_main", wbfw_mode, wbfw_version, do_check_userdata_saving,
                    IF wbfw_mode = MODE_BOOTLOADER THEN "flash_released" ELSE "restore")

\* download_fw_fallback and direct_flash of the released firmware.
FlashReleased ==
    \/ DirectFlashCall("flash_released", MODE_FW, NoImage, do_check_userdata_saving,
                       "restore")
    \/ /\ orch_pc = "flash_released"
       /\ \E err \in {"NoReleasedFwError", "WBRemoteStorageError"} : OrchRaise(err)
       /\ UNCHANGED <<wbfw_mode, wbfw_version, actual_bl_version, latest_remote_version,
                      local_version_exists, interactive, orch_force, orch_input,
                      bl_to_flash, do_check_userdata_saving, orch_log>>
       /\ UNCHANGED <<connection, serial, initial_settings>>
       /\ UNCHANGED <<decVars, flVars, pbVars, libVars>>

\* _set_port_settings_raw(initial_port_settings), set_response_timeout(...)
serial_left_by_the_flasher(port, captured) == port

\* _set_port_settings_raw and set_response_timeout, on the pyserial object
serial_after_restore(port, captured) ==
    [settings |-> captured.settings, timeout |-> captured.response_timeout]

RestoreSettings ==
    /\ orch_pc = "restore"
    /\ orch_pc' = "done"
    /\ connection' = [settings |-> initial_settings.settings,
                      response_timeout |-> initial_settings.response_timeout]
    /\ serial' = serial_after_restore(serial, initial_settings)
    /\ UNCHANGED initial_settings
    /\ UNCHANGED <<wbfw_mode, wbfw_version, actual_bl_version, latest_remote_version,
                   local_version_exists, interactive, orch_force, orch_input,
                   bl_to_flash, do_check_userdata_saving, orch_log, orch_error>>
    /\ UNCHANGED <<decVars, flVars, pbVars, libVars>>

OrchSteps ==
    \/ DoFlashCheck
    \/ RebootToBootloader
    \/ FlashBootloaderUpdate
    \/ FlashRequested
    \/ FlashReleased
    \/ RestoreSettings

(***************************************************************************)
(* The identity store: JsonDB over a FixedLengthList.                      *)
(***************************************************************************)
MAX_DB_RECORDS == 100

PORT == "/dev/ttyRS485-1"

find_nothing(slaveid, port, sequence) == 0

\* JsonDB._find: the index of the first record of (slaveid, port), 0 when none.
find(slaveid, port, sequence) ==
    LET hits == {i \in 1..Len(sequence) :
                    sequence[i].slaveid = slaveid /\ sequence[i].port = port}
    IN  IF hits = {} THEN 0 ELSE CHOOSE i \in hits : \A j \in hits : i <= j

pop(sequence, i) == SubSeq(sequence, 1, i - 1) \o SubSeq(sequence, i + 1, Len(sequence))

RECURSIVE keep_length_popping_the_tail(_, _)
keep_length_popping_the_tail(sequence, maxlen) ==
    IF Len(sequence) > maxlen
    THEN keep_length_popping_the_tail(SubSeq(sequence, 1, Len(sequence) - 1), maxlen)
    ELSE sequence

\* FixedLengthList._keep_length under a cap of maxlen records
RECURSIVE keep_length_to(_, _)
keep_length_to(sequence, maxlen) ==
    IF Len(sequence) > maxlen THEN keep_length_to(Tail(sequence), maxlen) ELSE sequence

\* FixedLengthList._keep_length, MAXLEN = CONFIG["MAX_DB_RECORDS"]
keep_length(sequence) == keep_length_to(sequence, MAX_DB_RECORDS)

\* JsonDB.save on a container capped at maxlen
save_to(records, maxlen, slaveid, port, fw_signature) ==
    LET i == find(slaveid, port, records)
        kept == IF i # 0 THEN pop(records, i) ELSE records
    IN  keep_length_to(Append(kept, [slaveid |-> slaveid, port |-> port,
                                     fw_signature |-> fw_signature]), maxlen)

\* JsonDB.save
save(records, slaveid, port, fw_signature) ==
    save_to(records, MAX_DB_RECORDS, slaveid, port, fw_signature)

\* sequence[::-1]
RECURSIVE reversed(_)
reversed(sequence) ==
    IF sequence = <<>> THEN <<>> ELSE Append(reversed(Tail(sequence)), Head(sequence))

get_fw_signature_of_any_port(records, slaveid, port) ==
    LET hits == {i \in 1..Len(records) : records[i].slaveid = slaveid}
    IN  IF hits = {} THEN "None"
        ELSE records[CHOOSE i \in hits : \A j \in hits : j <= i].fw_signature

\* JsonDB.get_fw_signature: "None" when the device has no record
get_fw_signature(records, slaveid, port) ==
    LET sequence == reversed(records)
        found_index == find(slaveid, port, sequence)
    IN  IF found_index # 0 THEN sequence[found_index].fw_signature ELSE "None"

FwSignatures == {"wbA", "wbB"}

(***************************************************************************)
(* The identity store driven by arbitrary saves and lookups.               *)
(***************************************************************************)
OTHER_PORT == "/dev/ttyRS485-2"

\* The (slaveid, port) pairs saved and looked up
StoreKeys == ((1..MaxSlaveIds) \X {PORT}) \cup {<<1, OTHER_PORT>>}

KeysOf(records) == {<<records[i].slaveid, records[i].port>> : i \in 1..Len(records)}

NoCall == [slaveid |-> 0]

StoreIdle ==
    /\ st_pc = "idle" /\ MAXLEN = 0 /\ container = <<>>
    /\ saved = <<>> /\ evicted = {} /\ last_save = NoCall /\ got = NoCall


\* db.save(slaveid, port, fw_signature)
Save ==
    /\ st_pc = "ready"
    /\ \E key \in StoreKeys, sig \in FwSignatures :
        /\ container' = save_to(container, MAXLEN, key[1], key[2], sig)
        /\ saved' = [saved EXCEPT ![key] = sig]
        /\ evicted' = (evicted \cup (KeysOf(container) \ KeysOf(container'))) \ {key}
        /\ last_save' = [slaveid |-> key[1], port |-> key[2],
                         present |-> key \in KeysOf(container),
                         full |-> Len(container) = MAXLEN]
    /\ got' = NoCall
    /\ UNCHANGED <<st_pc, MAXLEN>>
    /\ UNCHANGED restOfSt

\* db.get_fw_signature(slaveid, port)
Get ==
    /\ st_pc = "ready"
    /\ \E key \in StoreKeys :
        got' = [slaveid |-> key[1], port |-> key[2],
                fw_signature |-> get_fw_signature(container, key[1], key[2])]
    /\ UNCHANGED <<st_pc, MAXLEN, container, saved, evicted, last_save>>
    /\ UNCHANGED restOfSt

(***************************************************************************)
(* The prober: probe_all_devices, check_device_is_a_wb_one and             *)
(* is_in_bootloader.  Devices are named by their slave ids.                *)
(***************************************************************************)
Devices == 1..MaxDevices

BucketNames == {"alive", "in_bootloader", "disconnected", "too_old_to_update", "foreign"}

\* What a read ends with: a Modbus outcome, or the ValueError of minimalmodbus's
\* slave-id check or of the decoding of a string.
ReadOutcomes == Outcomes \cup {"ValueError"}
ReadAttempts == [1..ALLOWED_UNSUCCESSFUL_TRIES -> ReadOutcomes]

\* What a forced read can end with: the end of some run of its attempts.
ForcedReads == {Last(force(attempts)) : attempts \in ReadAttempts}

\* A forced operation the device answers in the same way at every attempt.
Steady(out) == Last(force([i \in 1..ALLOWED_UNSUCCESSFUL_TRIES |-> out]))

\* How a device answers the slave_id read and the write of 16 zero registers to
\* 0x1000, at each serial setting.
SlaveIdAnswers == {"ok", "NoResponseError", "SlaveReportedException"}
ProbeWriteAnswers == {"ok", "NoResponseError", "IllegalRequestError", "SlaveReportedException"}
ProbeEnvs == [sid : [Settings -> SlaveIdAnswers], wr : [Settings -> ProbeWriteAnswers]]
NoEnv == [sid |-> <<>>, wr |-> <<>>]

NewCur(d) == [dev |-> d, sn |-> "none", fw_sig |-> "none", rest |-> "none",
              saved |-> "none", env |-> NoEnv, bucket |-> "none",
              db0 |-> <<>>, stored |-> <<>>]

ProbeIdle ==
    /\ pb_pc = "idle"
    /\ uart_params = SerialSettings_9600_N_2
    /\ enabled = [d \in Devices |-> FALSE]
    /\ devices_on_port = <<>>
    /\ pb_i = 0
    /\ step = "sn"
    /\ cur = NewCur(0)
    /\ result = [b \in BucketNames |-> <<>>]
    /\ db = <<>>
    /\ pb_error = "none"

\* The sequences that list every element of S once.
Orderings(S) ==
    {f \in [1..Cardinality(S) -> S] : \A i, j \in 1..Cardinality(S) : f[i] = f[j] => i = j}

(***************************************************************************)
(* get_devices_on_driver: the enabled devices of the enabled port, taken   *)
(* out of a set, hence in an order the configuration does not fix.         *)
(***************************************************************************)
GetDevicesOnDriver ==
    /\ pb_pc = "config"
    /\ devices_on_port' \in Orderings({d \in Devices : enabled[d]})
    /\ pb_pc' = "probing"
    /\ pb_i' = 1
    /\ UNCHANGED <<uart_params, enabled, step, cur, result, db, pb_error>>
    /\ UNCHANGED <<decVars, flVars, orchVars, libVars>>

\* WBModbusDeviceBase._has_bootloader_answered: "True", "False", or "None" when
\* the write raises nothing.  The write is made at 9600-N-2 whatever the
\* settings of the connection.
has_bootloader_answered(env) ==
    LET out == Steady(env.wr[SerialSettings_9600_N_2])
    IN  IF out = "SlaveReportedException" THEN "True"
        ELSE IF out \in ModbusErrors THEN "False"
        ELSE "None"

\* WBModbusDeviceBase.is_in_bootloader on a connection at the given settings.
is_in_bootloader(settings, env) ==
    IF Steady(env.sid[settings]) \in ModbusErrors
    THEN has_bootloader_answered(env)
    ELSE "False"

Truthy(x) == x = "True"

\* probe_all_devices, the handler of NoResponseError: the bucket and the settings
\* the connection is left with.
no_response_bucket(configured, env) ==
    IF Truthy(is_in_bootloader(configured, env))
    THEN [bucket |-> "in_bootloader", settings |-> configured]
    ELSE IF configured # SerialSettings_9600_N_2
    THEN IF Truthy(is_in_bootloader(SerialSettings_9600_N_2, env))
         THEN [bucket |-> "in_bootloader", settings |-> SerialSettings_9600_N_2]
         ELSE [bucket |-> "disconnected", settings |-> SerialSettings_9600_N_2]
    ELSE [bucket |-> "disconnected", settings |-> configured]

\* check_device_is_a_wb_one, the first try block: what an exception of
\* get_serial_number or get_fw_signature becomes.  TooOldDeviceError is raised
\* by get_fw_signature alone.
first_block_verdict_foreign_on_silence(out, is_fw_signature) ==
    IF out = "ok" THEN "ok"
    ELSE IF out = "IllegalRequestError" /\ is_fw_signature THEN "TooOldDeviceError"
    ELSE IF out \in {"ValueError", "SlaveReportedException", "NoResponseError"}
    THEN "ForeignDeviceError"
    ELSE out

first_block_verdict(out, is_fw_signature) ==
    IF out = "ok" THEN "ok"
    ELSE IF out = "IllegalRequestError" /\ is_fw_signature THEN "TooOldDeviceError"
    ELSE IF out \in {"ValueError", "SlaveReportedException"} THEN "ForeignDeviceError"
    ELSE out

\* check_device_is_a_wb_one, the second try block.
second_block_verdict(out) ==
    IF out = "ok" THEN "ok"
    ELSE IF out \in ModbusErrors THEN "ForeignDeviceError"
    ELSE out

\* probe_all_devices, the last try block: the bucket of a device that passed
\* get_correct_modbus_connection, "none" when the exception is not handled.
alive_bucket_ignores_too_old(out) ==
    IF out \in {"ok", "IllegalRequestError"} THEN "alive" ELSE "none"

alive_bucket(out) ==
    IF out = "ok" THEN "alive"
    ELSE IF out = "IllegalRequestError" THEN "too_old_to_update"
    ELSE "none"

\* probe_all_devices, db.save(..., get_fw_signature()): save is called only
\* when get_fw_signature() has returned.
save_reached_whatever_the_read(out) == TRUE

save_reached(out) == out = "ok"

\* The first failure of a row of forced reads, "ok" when there is none.
RECURSIVE first_failure(_)
first_failure(outs) ==
    IF outs = <<>> THEN "ok"
    ELSE IF Head(outs) # "ok" THEN Head(outs)
    ELSE first_failure(Tail(outs))

Probing == pb_pc = "probing" /\ pb_i <= Len(devices_on_port)

\* result[bucket].append(device_info); continue
Classify(c, bucket, settings) ==
    /\ result' = [result EXCEPT ![bucket] =
                    Append(@, [dev |-> c.dev, settings |-> settings])]
    /\ cur' = [c EXCEPT !.bucket = bucket]
    /\ pb_i' = pb_i + 1
    /\ step' = "sn"
    /\ UNCHANGED <<pb_pc, pb_error>>

ProbeRaise(c, err) ==
    /\ pb_pc' = "raised"
    /\ pb_error' = err
    /\ cur' = c
    /\ UNCHANGED <<result, pb_i, step>>

\* What the verdict of a block of check_device_is_a_wb_one leads to.
AfterVerdict(c, verdict, next) ==
    IF verdict \in {"ok", "TooOldDeviceError"}
    THEN /\ step' = next
         /\ cur' = c
         /\ UNCHANGED <<pb_pc, pb_i, result, pb_error>>
    ELSE IF verdict = "ForeignDeviceError"
    THEN Classify(c, "foreign", uart_params)
    ELSE IF verdict = "NoResponseError"
    THEN /\ step' = "probe"
         /\ cur' = c
         /\ UNCHANGED <<pb_pc, pb_i, result, pb_error>>
    ELSE ProbeRaise(c, verdict)

\* get_serial_number(): the device signature, then the serial number.
CheckSerial ==
    /\ Probing /\ step = "sn"
    /\ \E sig_read \in ForcedReads, sn_read \in ForcedReads :
        LET out == first_failure(<<sig_read, sn_read>>)
            c == [NewCur(devices_on_port[pb_i]) EXCEPT !.sn = out, !.db0 = db]
        IN  AfterVerdict(c, first_block_verdict(out, FALSE), "fw_sig")
    /\ UNCHANGED <<uart_params, enabled, devices_on_port, db>>
    /\ UNCHANGED <<decVars, flVars, orchVars, libVars>>

\* get_fw_signature() in check_device_is_a_wb_one.
CheckFwSignature ==
    /\ Probing /\ step = "fw_sig"
    /\ \E out \in ForcedReads :
        LET c == [cur EXCEPT !.fw_sig = out]
        IN  AfterVerdict(c, first_block_verdict(out, TRUE), "rest")
    /\ UNCHANGED <<uart_params, enabled, devices_on_port, db>>
    /\ UNCHANGED <<decVars, flVars, orchVars, libVars>>

\* get_device_signature(), get_fw_version(), get_uptime().
CheckRest ==
    /\ Probing /\ step = "rest"
    /\ \E sig_read \in ForcedReads, ver_read \in ForcedReads, up_read \in ForcedReads :
        LET out == first_failure(<<sig_read, ver_read, up_read>>)
            c == [cur EXCEPT !.rest = out]
        IN  AfterVerdict(c, second_block_verdict(out), "save")
    /\ UNCHANGED <<uart_params, enabled, devices_on_port, db>>
    /\ UNCHANGED <<decVars, flVars, orchVars, libVars>>

\* db.save(slaveid, port, get_fw_signature()); result["alive"].append(device_info)
SaveAlive ==
    /\ Probing /\ step = "save"
    /\ \E out \in ForcedReads, sig \in FwSignatures :
        LET rec == [slaveid |-> cur.dev, port |-> PORT, fw_signature |-> sig]
            c == [cur EXCEPT !.saved = out,
                             !.stored = IF save_reached(out) THEN Append(@, rec) ELSE @]
            bucket == alive_bucket(out)
        IN  /\ db' = IF save_reached(out) THEN save(db, cur.dev, PORT, sig) ELSE db
            /\ IF bucket = "none"
               THEN ProbeRaise(c, out)
               ELSE Classify(c, bucket, uart_params)
    /\ UNCHANGED <<uart_params, enabled, devices_on_port>>
    /\ UNCHANGED <<decVars, flVars, orchVars, libVars>>

\* The handler of NoResponseError in probe_all_devices.
ProbeBootloader ==
    /\ Probing /\ step = "probe"
    /\ \E env \in ProbeEnvs :
        LET r == no_response_bucket(uart_params, env)
        IN  Classify([cur EXCEPT !.env = env], r.bucket, r.settings)
    /\ UNCHANGED <<uart_params, enabled, devices_on_port, db>>
    /\ UNCHANGED <<decVars, flVars, orchVars, libVars>>

\* return result
ProbeReturn ==
    /\ pb_pc = "probing" /\ pb_i > Len(devices_on_port)
    /\ pb_pc' = "returned"
    /\ UNCHANGED <<uart_params, enabled, devices_on_port, pb_i, step, cur, result,
                   db, pb_error>>
    /\ UNCHANGED <<decVars, flVars, orchVars, libVars>>

ProbeSteps ==
    \/ GetDevicesOnDriver
    \/ CheckSerial
    \/ CheckFwSignature
    \/ CheckRest
    \/ SaveAlive
    \/ ProbeBootloader
    \/ ProbeReturn

(***************************************************************************)
(* Recovery: _recover_all, _restore_fw_signature and                       *)
(* recover_device_iteration.  The devices found in bootloader are given    *)
(* with the outcome of the forced fw_signature read in the bootloader and  *)
(* the signature it returns when it succeeds; db is the identity store.    *)
(***************************************************************************)
StatusNames == {"skipped", "to_perform", "ok"}

RecoverIdle ==
    /\ rc_pc = "idle" /\ in_bootloader = <<>> /\ rc_i = 0
    /\ cmd_status = <<>> /\ rc_log = <<>> /\ rc_error = "none"


\* bindings get_fw_signature: an illegal request is raised as TooOldDeviceError
bl_fw_signature_read(out) == IF out = "IllegalRequestError" THEN "TooOldDeviceError" ELSE out

\* TooOldDeviceError is a ModbusException
ModbusExceptions == ModbusErrors \cup {"TooOldDeviceError"}

restore_fw_signature_from_store_first(read, sig, records, slaveid, port) ==
    IF get_fw_signature(records, slaveid, port) # "None"
    THEN get_fw_signature(records, slaveid, port)
    ELSE IF read = "ok" THEN sig ELSE "None"

\* _restore_fw_signature: the value it returns when it returns
restore_fw_signature(read, sig, records, slaveid, port) ==
    IF read = "ok" THEN sig ELSE get_fw_signature(records, slaveid, port)

\* One pass of the first loop of _recover_all
RestoreFwSignature ==
    /\ rc_pc = "restore"
    /\ rc_i <= Len(in_bootloader)
    /\ LET d == in_bootloader[rc_i]
           out == bl_fw_signature_read(d.read)
           asked == [ev |-> "bl_read", dev |-> d.dev]
           looked == [ev |-> "db_get", dev |-> d.dev]
           fw_signature == restore_fw_signature(out, d.sig, container, d.dev, PORT)
       IN  IF out = "ok" \/ out \in ModbusExceptions
           THEN /\ rc_log' = IF out = "ok" THEN Append(rc_log, asked)
                                           ELSE rc_log \o <<asked, looked>>
                /\ got' = IF out = "ok" THEN got
                          ELSE [slaveid |-> d.dev, port |-> PORT,
                                fw_signature |-> get_fw_signature(container, d.dev, PORT)]
                /\ cmd_status' =
                      IF fw_signature = "None"
                      THEN [cmd_status EXCEPT !["skipped"] = Append(@, d.dev)]
                      ELSE [cmd_status EXCEPT !["to_perform"] = Append(@, <<d.dev, fw_signature>>)]
                /\ rc_i' = IF rc_i = Len(in_bootloader) THEN 1 ELSE rc_i + 1
                /\ rc_pc' = IF rc_i = Len(in_bootloader) THEN "recover" ELSE rc_pc
                /\ UNCHANGED rc_error
           ELSE /\ rc_log' = Append(rc_log, asked)
                /\ rc_error' = out
                /\ rc_pc' = "raised"
                /\ UNCHANGED <<got, cmd_status, rc_i>>
    /\ UNCHANGED <<in_bootloader, st_pc, MAXLEN, container, saved, evicted, last_save>>
    /\ UNCHANGED <<decVars, flVars, orchVars, pbVars>>
    /\ UNCHANGED restOfRc

\* What get_released_fw and a download from the remote storage can end with
ReleasedResults == {"released", "NoReleasedFwError"}

DownloadResults == {"ok", "WBRemoteStorageError"}

\* download_fw_fallback: the released firmware, or the latest of master when
\* there is no release and the user agrees; NoReleasedFwError is raised again
\* when the user does not
download_fw_fallback(released, ask_for_latest, yes, remote) ==
    IF released = "NoReleasedFwError" /\ ~(ask_for_latest /\ yes)
    THEN "NoReleasedFwError"
    ELSE remote

\* direct_flash as recover_device_iteration calls it: nothing is erased and the
\* user data is not checked, so the user is never asked
DirectFlashEnds == {"ok", "FlashingError"}

\* One pass of the second loop of _recover_all: recover_device_iteration
RecoverDeviceIteration ==
    /\ rc_pc = "recover"
    /\ rc_i <= Len(cmd_status["to_perform"])
    /\ \E released \in ReleasedResults, force_yes \in BOOLEAN, input \in UserInputs,
          remote \in DownloadResults, fl \in DirectFlashEnds :
        LET dl == download_fw_fallback(released, TRUE, ask_user(force_yes, input), remote)
            dev == cmd_status["to_perform"][rc_i][1]
            sig == cmd_status["to_perform"][rc_i][2]
            download == [ev |-> "download", dev |-> dev, fw_signature |-> sig]
            flash == [ev |-> "flash", dev |-> dev, fw_signature |-> sig]
            res == IF dl # "ok" THEN dl ELSE fl
        IN  /\ rc_log' = IF dl = "ok" THEN rc_log \o <<download, flash>>
                                      ELSE Append(rc_log, download)
            /\ IF res \in {"FlashingError", "WBRemoteStorageError"}
               THEN /\ cmd_status' = [cmd_status EXCEPT !["skipped"] = Append(@, dev)]
                    /\ rc_i' = rc_i + 1
                    /\ UNCHANGED <<rc_pc, rc_error>>
               ELSE IF res = "ok"
               THEN /\ cmd_status' = [cmd_status EXCEPT !["ok"] = Append(@, dev)]
                    /\ rc_i' = rc_i + 1
                    /\ UNCHANGED <<rc_pc, rc_error>>
               ELSE /\ rc_error' = res
                    /\ rc_pc' = "raised"
                    /\ UNCHANGED <<cmd_status, rc_i>>
    /\ UNCHANGED <<in_bootloader, stVars>>
    /\ UNCHANGED <<decVars, flVars, orchVars, pbVars>>
    /\ UNCHANGED restOfRc

\* The end of _recover_all: "Not recovered:" lists cmd_status["skipped"]
RecoverReturn ==
    /\ \/ rc_pc = "recover" /\ rc_i > Len(cmd_status["to_perform"])
       \/ rc_pc = "restore" /\ in_bootloader = <<>>
    /\ rc_pc' = "returned"
    /\ UNCHANGED <<in_bootloader, rc_i, cmd_status, rc_log, rc_error, stVars>>
    /\ UNCHANGED <<decVars, flVars, orchVars, pbVars>>
    /\ UNCHANGED restOfRc

RecoverSteps == RestoreFwSignature \/ RecoverDeviceIteration \/ RecoverReturn

(***************************************************************************)
(* The Modbus bindings: one call of a method of WBModbusDeviceBase.  Every *)
(* typed operation is forced; mb_log keeps the operations in the order     *)
(* they are made, each with what it ended with.                            *)
(***************************************************************************)
NoSettings == <<>>

BindingsIdle ==
    /\ mb_pc = "idle" /\ mb_call = "none" /\ mb_env = <<>>
    /\ mb_settings = NoSettings /\ mb_initial = NoSettings /\ mb_i = 0
    /\ mb_log = <<>> /\ mb_result = <<>>


Raise(exc) == mb_pc' = "raised" /\ mb_result' = exc

Return(value) == mb_pc' = "returned" /\ mb_result' = value

SLAVEID_REG == 128
REBOOT_TO_BOOTLOADER_REG == 129

\* reboot_to_bootloader: self.get_slave_addr(), to ensure the device has connection
RebootEnsureConnection ==
    /\ mb_pc = "reboot"
    /\ \E out \in ForcedReads :
        /\ mb_log' = Append(mb_log, [op |-> "read_u16", reg |-> SLAVEID_REG, out |-> out])
        /\ IF out = "ok"
           THEN mb_pc' = "reboot_write" /\ UNCHANGED mb_result
           ELSE Raise(<<out>>)
    /\ UNCHANGED <<mb_call, mb_env, mb_settings, mb_initial, mb_i>>
    /\ UNCHANGED restOfMb

\* reboot_to_bootloader: the write of 1 to the reboot register and the sleep;
\* a ModbusException of the write is passed over
RebootWrite ==
    /\ mb_pc = "reboot_write"
    /\ \E out \in ForcedReads :
        /\ mb_log' = mb_log \o <<[op |-> "write_u16", reg |-> REBOOT_TO_BOOTLOADER_REG, out |-> out],
                                  [op |-> "sleep", reg |-> 0, out |-> "ok"]>>
        /\ IF out = "ok" \/ out \in ModbusExceptions
           THEN mb_pc' = "reboot_recheck" /\ UNCHANGED mb_result
           ELSE Raise(<<out>>)
    /\ UNCHANGED <<mb_call, mb_env, mb_settings, mb_initial, mb_i>>
    /\ UNCHANGED restOfMb

reboot_recheck_raising_when_answered(out) ==
    IF out = "ok" THEN "TooOldDeviceError"
    ELSE IF out \in ModbusExceptions THEN "returned" ELSE out

\* reboot_to_bootloader, the last try block: TooOldDeviceError is raised inside
\* the block whose handler passes over every ModbusException
reboot_recheck(out) ==
    LET thrown == IF out = "ok" THEN "TooOldDeviceError" ELSE out
    IN  IF thrown \in ModbusExceptions THEN "returned" ELSE thrown

RebootRecheck ==
    /\ mb_pc = "reboot_recheck"
    /\ \E out \in ForcedReads :
        /\ mb_log' = Append(mb_log, [op |-> "read_u16", reg |-> SLAVEID_REG, out |-> out])
        /\ IF reboot_recheck(out) = "returned"
           THEN Return(<<"None">>)
           ELSE Raise(<<reboot_recheck(out)>>)
    /\ UNCHANGED <<mb_call, mb_env, mb_settings, mb_initial, mb_i>>
    /\ UNCHANGED restOfMb

RebootSteps == RebootEnsureConnection \/ RebootWrite \/ RebootRecheck

(***************************************************************************)
(* find_uart_settings.  Serial settings are <<baudrate, parity, stopbits>>.*)
(* mb_env tells at which settings the device answers the probe (ok) and at *)
(* which the probe ends with a ValueError (bad); elsewhere the probe ends  *)
(* with NoResponseError, an IOError.                                       *)
(***************************************************************************)
ALLOWED_BAUDRATES == <<9600, 115200, 1200, 2400, 4800, 19200, 38400, 57600>>
ALLOWED_STOPBITS == <<2, 1>>
ALLOWED_PARITIES == <<"N", "O", "E">>

\* itertools.product(ALLOWED_BAUDRATES, allowed_parities, ALLOWED_STOPBITS): the
\* last factor varies fastest
product ==
    [k \in 1..(Len(ALLOWED_BAUDRATES) * Len(ALLOWED_PARITIES) * Len(ALLOWED_STOPBITS)) |->
        <<ALLOWED_BAUDRATES[((k - 1) \div (Len(ALLOWED_PARITIES) * Len(ALLOWED_STOPBITS))) + 1],
          ALLOWED_PARITIES[(((k - 1) \div Len(ALLOWED_STOPBITS)) % Len(ALLOWED_PARITIES)) + 1],
          ALLOWED_STOPBITS[((k - 1) % Len(ALLOWED_STOPBITS)) + 1]>>]

Combinations == {product[k] : k \in 1..Len(product)}

\* probe_method_callable() under the settings of the instrument
probe(env, settings) ==
    IF settings \in env.ok THEN "ok"
    ELSE IF settings \in env.bad THEN "ValueError"
    ELSE "NoResponseError"

\* minimalmodbus.ModbusException is an IOError
IOErrors == ModbusExceptions

settings_left_as_found(found, initial) == found

\* find_uart_settings after a probe that succeeded:
\* self._set_port_settings_raw(initial_uart_settings)
settings_after_success(found, initial) == initial

\* One pass of the loop of find_uart_settings: the probe runs under the settings
\* the instrument has, and the settings of this pass are set after it has failed
FindProbe ==
    /\ mb_pc = "find"
    /\ mb_i <= Len(product)
    /\ LET out == probe(mb_env, mb_settings)
       IN  /\ mb_log' = Append(mb_log, [op |-> "probe", settings |-> mb_settings, out |-> out])
           /\ IF out = "ok"
              THEN /\ Return(mb_settings)
                   /\ mb_settings' = settings_after_success(mb_settings, mb_initial)
                   /\ UNCHANGED mb_i
              ELSE IF out \in IOErrors
              THEN /\ mb_settings' = product[mb_i]
                   /\ mb_i' = mb_i + 1
                   /\ UNCHANGED <<mb_pc, mb_result>>
              ELSE /\ Raise(<<out>>)
                   /\ UNCHANGED <<mb_settings, mb_i>>
    /\ UNCHANGED <<mb_call, mb_env, mb_initial>>
    /\ UNCHANGED restOfMb

\* The else branch of the loop
FindExhausted ==
    /\ mb_pc = "find"
    /\ mb_i > Len(product)
    /\ Raise(<<"UARTSettingsNotFoundError">>)
    /\ UNCHANGED <<mb_call, mb_env, mb_settings, mb_initial, mb_i, mb_log>>
    /\ UNCHANGED restOfMb

FindSteps == FindProbe \/ FindExhausted

(***************************************************************************)
(* A typed operation: write_u16_regs under force().  mb_env is what the    *)
(* attempts would end with, one after the other.                           *)
(***************************************************************************)
ForceOutcomes == Outcomes \cup {"ValueError", "SerialException"}

ForcedCall ==
    /\ mb_pc = "forced"
    /\ LET attempts == force(mb_env)
       IN  /\ mb_log' = [k \in 1..Len(attempts) |-> [op |-> "write_registers", out |-> attempts[k]]]
           /\ IF Last(attempts) = "ok"
              THEN Return(<<"None">>)
              ELSE Raise(<<Last(attempts)>>)
    /\ UNCHANGED <<mb_call, mb_env, mb_settings, mb_initial, mb_i>>
    /\ UNCHANGED restOfMb

(***************************************************************************)
(* The transport.  Time is counted in half character times of the line.    *)
(* since_read[port] is the time since minimalmodbus._latest_read_times of  *)
(* the port, since_frame[port] the time since the end of the last outgoing *)
(* frame on the port; both stop counting at the minimum silent period      *)
(* (nothing depends on how much longer it has been).                       *)
(***************************************************************************)
MINIMUM_SILENT_PERIOD == 7

Saturated(t) == Min(t, MINIMUM_SILENT_PERIOD)

Ports == {PORT, OTHER_PORT}

\* The instruments: (slaveid, port)
Instruments == {<<1, PORT>>, <<2, PORT>>, <<1, OTHER_PORT>>}

NoFrame == [port |-> "none"]

TransportIdle ==
    /\ handle_local_echo = FALSE /\ since_read = <<>> /\ since_frame = <<>>
    /\ last_outcome = <<>> /\ last_frame = NoFrame


TransactionOutcomes(echo) ==
    {"success", "no response"} \cup (IF echo THEN {"local echo mismatch"} ELSE {})

\* _communicate: the sleep before the write
sleep_time(time_since_read) ==
    IF time_since_read < MINIMUM_SILENT_PERIOD
    THEN MINIMUM_SILENT_PERIOD - time_since_read
    ELSE 0

\* _communicate: _latest_read_times[port] is set after the response has been
\* read, which a local echo mismatch does not reach
clock_restarts(outcome) == outcome # "local echo mismatch"

\* One call of _communicate of an instrument: the sleep, the request written in
\* w half characters, the echo and the response read in r (the timeout when
\* there is no response)
Communicate ==
    /\ last_outcome # <<>>
    /\ \E inst \in Instruments, w \in 1..MaxWait, r \in 0..MaxWait,
          outcome \in TransactionOutcomes(handle_local_echo) :
        LET p == inst[2]
            slept == sleep_time(since_read[p])
            elapsed == slept + w + r
        IN  /\ outcome = "no response" => r = MaxWait
            /\ last_frame' = [port |-> p, slaveid |-> inst[1],
                              silence |-> Saturated(since_frame[p] + slept),
                              earlier |-> last_outcome[p]]
            /\ since_frame' = [q \in Ports |-> IF q = p THEN Saturated(r)
                                                ELSE Saturated(since_frame[q] + elapsed)]
            /\ since_read' = [q \in Ports |-> IF q = p /\ clock_restarts(outcome) THEN 0
                                               ELSE Saturated(since_read[q] + elapsed)]
            /\ last_outcome' = [last_outcome EXCEPT ![p] = outcome]
    /\ UNCHANGED handle_local_echo
    /\ UNCHANGED restOfTr

\* Time passing between two calls
Tick ==
    /\ last_outcome # <<>>
    /\ since_frame' = [q \in Ports |-> Saturated(since_frame[q] + 1)]
    /\ since_read' = [q \in Ports |-> Saturated(since_read[q] + 1)]
    /\ since_frame' # since_frame \/ since_read' # since_read
    /\ UNCHANGED <<handle_local_echo, last_outcome, last_frame>>
    /\ UNCHANGED restOfTr

(***************************************************************************)
(* Serial-port arbitration.  holders are the command lines of the          *)
(* processes that have the port open; termios is the kernel's settings of  *)
(* the port.  ar_log keeps the prompts, the signals and the termios calls  *)
(* in the order they are made.                                             *)
(***************************************************************************)
DEFAULT_CLIENT == "/usr/bin/wb-mqtt-serial"

ProcessNames == {DEFAULT_CLIENT, "socat", "minicom"}

TermiosSettings == {"as found", "of the updater"}

ArbitrationIdle ==
    /\ ar_pc = "idle" /\ holders = {} /\ ar_force = FALSE /\ ar_input = "n"
    /\ termios = "none" /\ initial_termios = "none" /\ ar_log = <<>> /\ ar_error = "none"

\* _get_clients: the command lines of the holders fuser reports, but socat's
get_clients(procs) == {p \in procs : p # "socat"}

needs_no_confirmation(actual_clients) == FALSE

\* stop_clients: actual_clients.difference(default_clients)
needs_confirmation(actual_clients) == actual_clients \ {DEFAULT_CLIENT} # {}

\* _send_signal: fuser -k <signal> <ports> reaches every process holding the port
send_signal(signal, procs) == [ev |-> "signal", signal |-> signal, to |-> procs]

\* stop_clients(force, *ports)
StopClients ==
    /\ ar_pc = "stop_clients"
    /\ LET actual_clients == get_clients(holders)
           prompt == [ev |-> "ask_user", shown |-> ~ar_force, input |-> ar_input]
           asked == IF needs_confirmation(actual_clients) THEN <<prompt>> ELSE <<>>
           stops == IF actual_clients # {} THEN <<send_signal("-STOP", holders)>> ELSE <<>>
       IN  IF needs_confirmation(actual_clients) /\ ~ask_user(ar_force, ar_input)
           THEN /\ ar_log' = ar_log \o asked
                /\ ar_pc' = "exited"
                /\ ar_error' = "SystemExit"
           ELSE /\ ar_log' = ar_log \o asked \o stops
                /\ ar_pc' = "get_port_settings"
                /\ UNCHANGED ar_error
    /\ UNCHANGED <<holders, ar_force, ar_input, termios, initial_termios>>
    /\ UNCHANGED restOfAr

\* get_port_settings(port_fname): termios.tcgetattr
GetPortSettings ==
    /\ ar_pc = "get_port_settings"
    /\ initial_termios' = termios
    /\ ar_log' = Append(ar_log, [ev |-> "tcgetattr", termios |-> termios])
    /\ ar_pc' = "work"
    /\ UNCHANGED <<holders, ar_force, ar_input, termios, ar_error>>
    /\ UNCHANGED restOfAr

WorkEnds == {"ok", "exception", "UserCancelledError", "KeyboardInterrupt"}

\* The work on the port: it leaves the port with any settings and ends in any way
Work ==
    /\ ar_pc = "work"
    /\ \E end \in WorkEnds, left \in TermiosSettings :
        /\ termios' = left
        /\ ar_error' = IF end = "ok" THEN ar_error ELSE end
        /\ ar_log' = Append(ar_log, [ev |-> "work", end |-> end, termios |-> left])
    /\ ar_pc' = "set_port_settings"
    /\ UNCHANGED <<holders, ar_force, ar_input, initial_termios>>
    /\ UNCHANGED restOfAr

tcsetattr_leaving_the_port_as_it_is(port_termios, termios_settings) == port_termios

\* set_port_settings: termios.tcsetattr(port.fileno(), termios.TCSANOW, termios_settings)
tcsetattr(port_termios, termios_settings) == termios_settings

\* set_port_settings(port_fname, termios_settings)
SetPortSettings ==
    /\ ar_pc = "set_port_settings"
    /\ termios' = tcsetattr(termios, initial_termios)
    /\ ar_log' = Append(ar_log, [ev |-> "tcsetattr", termios |-> termios'])
    /\ ar_pc' = "resume_clients"
    /\ UNCHANGED <<holders, ar_force, ar_input, initial_termios, ar_error>>
    /\ UNCHANGED restOfAr

\* resume_clients(*ports)
ResumeClients ==
    /\ ar_pc = "resume_clients"
    /\ ar_log' = Append(ar_log, [ev |-> "signal", signal |-> "-CONT", to |-> holders,
                                   termios |-> termios])
    /\ ar_pc' = "done"
    /\ UNCHANGED <<holders, ar_force, ar_input, termios, initial_termios, ar_error>>
    /\ UNCHANGED restOfAr

ArbitrationSteps == StopClients \/ GetPortSettings \/ Work \/ SetPortSettings \/ ResumeClients

(***************************************************************************)
(* The downloader.  dl_call is the call made, dl_env what the remote       *)
(* storage answers, dl_log the requests in the order they are made.        *)
(***************************************************************************)
NoDownload == [name |-> "none"]

DownloadIdle ==
    /\ dl_pc = "idle" /\ dl_call = NoDownload /\ dl_env = <<>>
    /\ dl_i = 0 /\ dl_log = <<>> /\ dl_result = <<>>

\* get_request(url_path, tries=3)
DEFAULT_TRIES == 3

\* What urlopen ends with: the response, an error get_request catches, or
\* another exception (a ValueError for a malformed url)
UrlopenErrors == {"URLError", "HTTPError", "socket.error"}
UrlopenOutcomes == {"response"} \cup UrlopenErrors \cup {"ValueError"}

range_of_one_more(tries) == tries + 1

\* for _ in range(tries)
range_of(tries) == tries

\* One pass of the loop of get_request
GetRequestAttempt ==
    /\ dl_pc = "get_request"
    /\ dl_i < range_of(dl_call.tries)
    /\ LET out == dl_env[dl_i + 1]
       IN  /\ dl_log' = Append(dl_log, [ev |-> "urlopen", out |-> out])
           /\ dl_i' = dl_i + 1
           /\ IF out = "response"
              THEN dl_pc' = "returned" /\ dl_result' = <<"response", dl_i + 1>>
              ELSE IF out \in UrlopenErrors
              THEN UNCHANGED <<dl_pc, dl_result>>
              ELSE dl_pc' = "raised" /\ dl_result' = <<out>>
    /\ UNCHANGED <<dl_call, dl_env>>
    /\ UNCHANGED restOfDl

\* The loop of get_request has ended: raise WBRemoteStorageError(url_path)
GetRequestExhausted ==
    /\ dl_pc = "get_request"
    /\ dl_i >= range_of(dl_call.tries)
    /\ dl_pc' = "raised"
    /\ dl_result' = <<"WBRemoteStorageError">>
    /\ UNCHANGED <<dl_call, dl_env, dl_i, dl_log>>
    /\ UNCHANGED restOfDl

MODE_COMPONENTS == "components"

Modes == {MODE_FW, MODE_BOOTLOADER, MODE_COMPONENTS}

Branches == {"", "feature"}

SpecifiedVersions == {"release", "latest", "1.2.3"}

\* What the release manifest has for the signature: an endpoint and the
\* version parse_fw_version reads in it, or nothing
NoRelease == [version |-> "none", endpoint |-> "none"]

Releases ==
    {[version |-> "1.0.0", endpoint |-> "fw/by-signature/sig/main/1.0.0.wbfw"],
     [version |-> "latest", endpoint |-> "fw/by-signature/sig/main/latest.wbfw"],
     NoRelease}

\* The content of latest.txt of the source of a branch
LatestVersionNumber(branch) == IF branch = "" THEN "1.2.4" ELSE "1.3.0-rc1"

\* The requests of _do_download that the storage can fail
Failing == {"none", "download", "download_remote_file", "get_latest_version_number"}

Request(ev, branch, what) == [ev |-> ev, branch |-> branch, what |-> what]

\* RemoteFileWatcher.download(name, version): the saved file
Saved(branch, version) == <<branch, version>>

mode_name(mode) == IF mode = MODE_FW THEN "firmware" ELSE mode

retrieves_latest_vnum_whatever_the_branch(branch, mode, retrieve_latest_vnum) == retrieve_latest_vnum

\* _do_download: retrieve_latest_vnum after "if branch:"
retrieves_latest_vnum(branch, mode, retrieve_latest_vnum) ==
    IF branch # "" /\ mode_name(mode) = "bootloader" THEN FALSE ELSE retrieve_latest_vnum

\* _do_download, as the run of its four parts over
\* [version, downloaded_fw, log, error]
do_download_branch(s, branch, env) ==
    IF branch # "" /\ s.version = "release"
    THEN LET log == Append(s.log, Request("download", branch, "latest"))
         IN  IF env.failing = "download"
             THEN [s EXCEPT !.version = "latest", !.log = log, !.error = "WBRemoteStorageError"]
             ELSE [s EXCEPT !.version = "latest", !.log = log,
                            !.downloaded_fw = Saved(branch, "latest")]
    ELSE s

do_download_release(s, env) ==
    IF s.error = "none" /\ s.version = "release"
    THEN LET asked == Append(s.log, Request("get_released_fw", "", ""))
             log == Append(asked, Request("download_remote_file", "", env.released.endpoint))
         IN  IF env.released = NoRelease
             THEN [s EXCEPT !.log = asked, !.error = "NoReleasedFwError"]
             ELSE IF env.failing = "download_remote_file"
             THEN [s EXCEPT !.version = env.released.version, !.log = log,
                            !.error = "WBRemoteStorageError"]
             ELSE [s EXCEPT !.version = env.released.version, !.log = log,
                            !.downloaded_fw = <<env.released.endpoint>>]
    ELSE s

do_download_latest(s, branch, retrieve, env) ==
    IF s.error = "none" /\ s.version = "latest" /\ retrieve
    THEN LET log == Append(s.log, Request("get_latest_version_number", branch, ""))
         IN  IF env.failing = "get_latest_version_number"
             THEN [s EXCEPT !.log = log, !.error = "WBRemoteStorageError"]
             ELSE [s EXCEPT !.log = log, !.version = LatestVersionNumber(branch)]
    ELSE s

do_download_rest(s, branch, env) ==
    IF s.error = "none" /\ s.downloaded_fw = <<>>
    THEN LET log == Append(s.log, Request("download", branch, s.version))
         IN  IF env.failing = "download"
             THEN [s EXCEPT !.log = log, !.error = "WBRemoteStorageError"]
             ELSE [s EXCEPT !.log = log, !.downloaded_fw = Saved(branch, s.version)]
    ELSE s

do_download(version, branch, mode, retrieve_latest_vnum, env) ==
    LET s0 == [version |-> version, downloaded_fw |-> <<>>, log |-> <<>>, error |-> "none"]
        s1 == do_download_branch(s0, branch, env)
        s2 == do_download_release(s1, env)
        s3 == do_download_latest(s2, branch,
                                 retrieves_latest_vnum(branch, mode, retrieve_latest_vnum), env)
    IN  do_download_rest(s3, branch, env)

\* _do_download(fw_sig, version, branch, mode, retrieve_latest_vnum)
DoDownload ==
    /\ dl_pc = "_do_download"
    /\ LET s == do_download(dl_call.version, dl_call.branch, dl_call.mode,
                            dl_call.retrieve_latest_vnum, dl_env)
       IN  /\ dl_log' = s.log
           /\ IF s.error = "none"
              THEN /\ dl_pc' = "returned"
                   /\ dl_result' = <<dl_call.mode, s.downloaded_fw, s.version>>
              ELSE /\ dl_pc' = "raised"
                   /\ dl_result' = <<s.error>>
    /\ UNCHANGED <<dl_call, dl_env, dl_i>>
    /\ UNCHANGED restOfDl

DownloadSteps == GetRequestAttempt \/ GetRequestExhausted \/ DoDownload

(***************************************************************************)
(* wb_modbus/bindings.py, is_in_bootloader and _has_bootloader_answered,   *)
(* and update_monitor.py, wait_for_wake_up.  Timeouts are counted in       *)
(* tenths of a second.  wk_conn is the connection: its settings, its       *)
(* response_timeout and the timeout of its serial object.                  *)
(***************************************************************************)
\* BOOTLOADER_INFOBLOCK_MAGIC_TIMEOUT = 1.0
BOOTLOADER_INFOBLOCK_MAGIC_TIMEOUT == 10

\* The response timeouts a connection is made with (0.2 s, 0.5 s)
WakeTimeouts == {2, 5}

\* wait_for_wake_up: min_tries = 2
min_tries == 2

\* The probes of one wait that the model follows
MaxProbes == 3

NoWakeConn == [settings |-> "none", response_timeout |-> 0, serial_timeout |-> 0]

WakeIdle ==
    /\ wk_pc = "idle"
    /\ wk_call = "none"
    /\ wk_conn = NoWakeConn
    /\ wk_before = NoWakeConn
    /\ wk_initial = NoWakeConn
    /\ wk_tries = 0
    /\ wk_expired = FALSE
    /\ wk_answer = "none"
    /\ wk_log = <<>>
    /\ wk_result = "none"

\* set_response_timeout: the attribute and the serial object's timeout
set_response_timeout(conn, t) ==
    [conn EXCEPT !.response_timeout = t, !.serial_timeout = t]

\* _has_bootloader_answered, before the try: the settings and the serial
\* timeout are captured, the port goes to 9600-N-2 and the timeout is raised
switch_to_bootloader_params(conn) ==
    set_response_timeout([conn EXCEPT !.settings = SerialSettings_9600_N_2],
                         conn.serial_timeout + BOOTLOADER_INFOBLOCK_MAGIC_TIMEOUT)

\* A finally clause that puts the settings back and forgets the timeout
finally_settings_only(conn, initial) ==
    [conn EXCEPT !.settings = initial.settings]

\* _has_bootloader_answered, the finally clause
finally_restore(conn, initial) ==
    set_response_timeout([conn EXCEPT !.settings = initial.settings],
                         initial.serial_timeout)

\* What the dummy write of the probe ends with
ProbeWriteEnds == Outcomes \cup {"ValueError"}

\* The value _has_bootloader_answered returns: True on exception 04, False
\* on another Modbus error, None when the write raised nothing
probe_answer(out) ==
    IF out = "SlaveReportedException" THEN "True"
    ELSE IF out \in ModbusErrors THEN "False"
    ELSE "None"

\* Where a finished is_in_bootloader goes: back into the loop of
\* wait_for_wake_up, or to its own caller
AfterAnswer == IF wk_call = "wait_for_wake_up" THEN "check" ELSE "returned"

\* wait_for_wake_up, the loop head: another probe while the time is not up
\* or fewer than min_tries probes were made, else False
WakeHead ==
    /\ wk_pc = "while"
    /\ IF (~wk_expired) \/ wk_tries < min_tries
       THEN /\ wk_tries' = wk_tries + 1
            /\ wk_pc' = "get_slave_addr"
            /\ wk_result' = wk_result
       ELSE /\ wk_result' = "False"
            /\ wk_pc' = "returned"
            /\ wk_tries' = wk_tries
    /\ UNCHANGED <<wk_call, wk_conn, wk_before, wk_initial, wk_expired, wk_answer, wk_log>>
    /\ UNCHANGED restOfWk

\* is_in_bootloader: the slave_id read; False when it is answered, the probe
\* after a ModbusException, any other exception leaves the method
GetSlaveAddr ==
    /\ wk_pc = "get_slave_addr"
    /\ \E out \in ReadOutcomes :
        /\ wk_log' = Append(wk_log, [call |-> "get_slave_addr", out |-> out, conn |-> wk_conn])
        /\ IF out = "ok"
           THEN /\ wk_answer' = "False"
                /\ wk_pc' = AfterAnswer
                /\ wk_result' = IF wk_call = "is_in_bootloader" THEN "False" ELSE wk_result
           ELSE IF out \in ModbusErrors
           THEN /\ wk_pc' = "switch"
                /\ UNCHANGED <<wk_answer, wk_result>>
           ELSE /\ wk_pc' = "raised"
                /\ wk_result' = out
                /\ wk_answer' = wk_answer
    /\ UNCHANGED <<wk_call, wk_conn, wk_before, wk_initial, wk_tries, wk_expired>>
    /\ UNCHANGED restOfWk

\* _has_bootloader_answered up to the try
SwitchToBootloaderParams ==
    /\ wk_pc = "switch"
    /\ wk_initial' = wk_conn
    /\ wk_conn' = switch_to_bootloader_params(wk_conn)
    /\ wk_pc' = "write"
    /\ UNCHANGED <<wk_call, wk_before, wk_tries, wk_expired, wk_answer, wk_log, wk_result>>
    /\ UNCHANGED restOfWk

\* _has_bootloader_answered, the try with its finally: the dummy write of
\* the info block, then the settings and the timeout put back whatever the
\* write ended with
ProbeWrite ==
    /\ wk_pc = "write"
    /\ \E out \in ProbeWriteEnds :
        /\ wk_log' = Append(wk_log, [call |-> "write_u16_regs", out |-> out, conn |-> wk_conn])
        /\ wk_conn' = finally_restore(wk_conn, wk_initial)
        /\ IF out \in Outcomes
           THEN /\ wk_answer' = probe_answer(out)
                /\ wk_pc' = AfterAnswer
                /\ wk_result' = IF wk_call = "is_in_bootloader" THEN probe_answer(out) ELSE wk_result
           ELSE /\ wk_pc' = "raised"
                /\ wk_result' = out
                /\ wk_answer' = wk_answer
    /\ UNCHANGED <<wk_call, wk_before, wk_initial, wk_tries, wk_expired>>
    /\ UNCHANGED restOfWk

\* wait_for_wake_up, the loop body after the probe: True when the answer is
\* not truthy, else once more; the time may have run out meanwhile
WakeCheck ==
    /\ wk_pc = "check"
    /\ IF ~Truthy(wk_answer)
       THEN /\ wk_result' = "True"
            /\ wk_pc' = "returned"
            /\ wk_expired' = wk_expired
       ELSE /\ wk_pc' = "while"
            /\ wk_result' = wk_result
            /\ \E e \in BOOLEAN :
                /\ wk_expired => e
                /\ wk_tries >= MaxProbes => e
                /\ wk_expired' = e
    /\ UNCHANGED <<wk_call, wk_conn, wk_before, wk_initial, wk_tries, wk_answer, wk_log>>
    /\ UNCHANGED restOfWk

(***************************************************************************)
(* wb_modbus/instruments.py, StopbitsTolerantInstrument under              *)
(* PyserialBackendInstrument._communicate.  sb_stopbits is serial._stopbits *)
(* and the CSTOPB flag of the line, which _set_stopbits_onthefly sets      *)
(* together; sb_configured is the value the instrument was set up with.    *)
(***************************************************************************)
\* The bytes of a request that the model follows through the output buffer
MaxRequest == 2

\* The transactions of one instrument that the model follows
MaxTransactions == 2

StopbitsIdle ==
    /\ sb_pc = "idle"
    /\ sb_echo = FALSE
    /\ sb_configured = 0
    /\ sb_stopbits = 0
    /\ sb_initial = 0
    /\ out_waiting = 0
    /\ in_waiting = 0
    /\ sb_expired = FALSE
    /\ sb_n = 0
    /\ sb_log = <<>>
    /\ sb_result = "none"

\* _write_to_bus: _set_stopbits_onthefly(stopbits=1)
stopbits_to_receive(initial) == 1

\* _write_to_bus, the head: the stop bits are remembered and the request is
\* handed to the serial port
WriteToBus ==
    /\ sb_pc = "write"
    /\ sb_initial' = sb_stopbits
    /\ out_waiting' = MaxRequest
    /\ in_waiting' = 0
    /\ sb_expired' = FALSE
    /\ sb_pc' = "wait"
    /\ UNCHANGED <<sb_echo, sb_configured, sb_stopbits, sb_n, sb_log, sb_result>>
    /\ UNCHANGED restOfSb

\* What happens on the line during one sleep of the loop: bytes leave the
\* output buffer, input may arrive, the response timeout may run out
LineMoves ==
    /\ sb_pc = "wait"
    /\ (out_waiting > 0 \/ in_waiting = 0)
    /\ ~sb_expired
    /\ \E o \in 0..out_waiting, i \in in_waiting..1, e \in BOOLEAN :
        /\ out_waiting' = o
        /\ in_waiting' = i
        /\ sb_expired' = e
        /\ <<o, i, e>> # <<out_waiting, in_waiting, sb_expired>>
    /\ UNCHANGED <<sb_pc, sb_echo, sb_configured, sb_stopbits, sb_initial, sb_n, sb_log, sb_result>>
    /\ UNCHANGED restOfSb

\* _write_to_bus, the loop and what follows it: NoResponseError or
\* MasterReportedException when the timeout is over, the switch to one stop
\* bit once the output buffer is empty and input is waiting
WaitThenSwitch ==
    /\ sb_pc = "wait"
    /\ IF out_waiting > 0 \/ in_waiting = 0
       THEN /\ sb_expired
            /\ sb_result' = IF out_waiting = 0 /\ in_waiting = 0
                            THEN "NoResponseError" ELSE "MasterReportedException"
            /\ sb_pc' = "raised"
            /\ UNCHANGED <<sb_stopbits, sb_log>>
       ELSE /\ sb_stopbits' = stopbits_to_receive(sb_initial)
            /\ sb_log' = Append(sb_log, [n |-> sb_n, out_waiting |-> out_waiting,
                                         in_waiting |-> in_waiting])
            /\ sb_pc' = "echo"
            /\ sb_result' = sb_result
    /\ UNCHANGED <<sb_echo, sb_configured, sb_initial, out_waiting, in_waiting, sb_expired, sb_n>>
    /\ UNCHANGED restOfSb

\* _communicate, the local echo between the write and the read: a mismatch
\* raises LocalEchoError
LocalEcho ==
    /\ sb_pc = "echo"
    /\ \/ /\ sb_pc' = "read"
          /\ sb_result' = sb_result
       \/ /\ sb_echo
          /\ sb_pc' = "raised"
          /\ sb_result' = "LocalEchoError"
    /\ UNCHANGED <<sb_echo, sb_configured, sb_stopbits, sb_initial, out_waiting, in_waiting, sb_expired, sb_n, sb_log>>
    /\ UNCHANGED restOfSb

\* _read_from_bus: the response is read and the stop bits remembered by
\* _write_to_bus are set again; _communicate then returns the answer, or
\* raises NoResponseError for an empty one.  A read that raises
\* (serial.SerialException) leaves _read_from_bus before that.
ReadFromBus ==
    /\ sb_pc = "read"
    /\ \E answer \in {"answer", "", "SerialException"} :
        IF answer = "SerialException"
        THEN /\ sb_pc' = "raised"
             /\ sb_result' = answer
             /\ UNCHANGED sb_stopbits
        ELSE /\ sb_stopbits' = sb_initial
             /\ sb_pc' = IF answer = "" THEN "raised" ELSE "returned"
             /\ sb_result' = IF answer = "" THEN "NoResponseError" ELSE "answer"
    /\ in_waiting' = 0
    /\ UNCHANGED <<sb_echo, sb_configured, sb_initial, out_waiting, sb_expired, sb_n, sb_log>>
    /\ UNCHANGED restOfSb

\* The next _communicate of the instrument
NextTransaction ==
    /\ sb_pc \in {"returned", "raised"}
    /\ sb_n < MaxTransactions
    /\ sb_n' = sb_n + 1
    /\ sb_pc' = "write"
    /\ sb_result' = "none"
    /\ UNCHANGED <<sb_echo, sb_configured, sb_stopbits, sb_initial, out_waiting, in_waiting, sb_expired, sb_log>>
    /\ UNCHANGED restOfSb

(***************************************************************************)
(* update_monitor.py, spinner: the thread of the caller (sp_pc) and the    *)
(* worker thread pbar_update_runner (worker_pc), interleaved.              *)
(***************************************************************************)
\* The steps of the body of the with statement that the model follows
MaxBodySteps == 2

\* The updates of the progress bar that the model counts
MaxUpdates == 3

NoBar == [n |-> 0, closed |-> FALSE]

SpinnerIdle ==
    /\ sp_pc = "idle"
    /\ sp_work = 0
    /\ sp_exc = FALSE
    /\ stop_event = FALSE
    /\ worker_pc = "idle"
    /\ pbar = NoBar

\* A finally clause that does not wait for the worker
joined_at_once(worker) == TRUE

\* pbar_update_thread.join(): returns once the worker has ended
joined(worker) == worker = "terminated"

\* pbar_update_thread.start()
StartWorker ==
    /\ sp_pc = "start"
    /\ worker_pc' = "while"
    /\ sp_pc' = "body"
    /\ UNCHANGED <<sp_work, sp_exc, stop_event, pbar>>
    /\ UNCHANGED restOfSp

\* The body of the with statement: a step of work, its end, or an exception
Body ==
    /\ sp_pc = "body"
    /\ \/ /\ sp_work < MaxBodySteps
          /\ sp_work' = sp_work + 1
          /\ UNCHANGED <<sp_pc, sp_exc>>
       \/ /\ sp_pc' = "finally"
          /\ sp_exc' \in BOOLEAN
          /\ sp_work' = sp_work
    /\ UNCHANGED <<stop_event, worker_pc, pbar>>
    /\ UNCHANGED restOfSp

\* finally: stop_event.set()
SetStopEvent ==
    /\ sp_pc = "finally"
    /\ stop_event' = TRUE
    /\ sp_pc' = "join"
    /\ UNCHANGED <<sp_work, sp_exc, worker_pc, pbar>>
    /\ UNCHANGED restOfSp

\* finally: pbar_update_thread.join()
Join ==
    /\ sp_pc = "join"
    /\ joined(worker_pc)
    /\ sp_pc' = "close"
    /\ UNCHANGED <<sp_work, sp_exc, stop_event, worker_pc, pbar>>
    /\ UNCHANGED restOfSp

\* finally: pbar.close(); control then leaves the context, with the
\* exception of the body if there was one
Close ==
    /\ sp_pc = "close"
    /\ pbar' = [pbar EXCEPT !.closed = TRUE]
    /\ sp_pc' = IF sp_exc THEN "raised" ELSE "left"
    /\ UNCHANGED <<sp_work, sp_exc, stop_event, worker_pc>>
    /\ UNCHANGED restOfSp

\* pbar_update_runner: while not stop_event.is_set()
WorkerTest ==
    /\ worker_pc = "while"
    /\ worker_pc' = IF stop_event THEN "terminated" ELSE "update"
    /\ UNCHANGED <<sp_pc, sp_work, sp_exc, stop_event, pbar>>
    /\ UNCHANGED restOfSp

\* pbar_update_runner: pbar.update(interval)
WorkerUpdate ==
    /\ worker_pc = "update"
    /\ pbar' = [pbar EXCEPT !.n = Min(pbar.n + 1, MaxUpdates)]
    /\ worker_pc' = "sleep"
    /\ UNCHANGED <<sp_pc, sp_work, sp_exc, stop_event>>
    /\ UNCHANGED restOfSp

\* pbar_update_runner: time.sleep(interval)
WorkerSleep ==
    /\ worker_pc = "sleep"
    /\ worker_pc' = "while"
    /\ UNCHANGED <<sp_pc, sp_work, sp_exc, stop_event, pbar>>
    /\ UNCHANGED restOfSp

Worker == WorkerTest \/ WorkerUpdate \/ WorkerSleep

(***************************************************************************)
(* update_monitor.py, get_devices_on_driver.  The configuration is read as *)
(* the scan goes: each port and each device entry is drawn when the loop   *)
(* reaches it.  A slave_id is a JSON string, [str |-> characters], or a    *)
(* JSON integer, [int |-> value].                                          *)
(***************************************************************************)
\* The ports of a configuration and the devices of a port
MaxConfigPorts == 2
MaxConfigDevices == 2

DecValue(c) == CASE c = "0" -> 0 [] c = "1" -> 1 [] c = "2" -> 2 [] OTHER -> -1
HexValue(c) == CASE c = "a" -> 10 [] OTHER -> DecValue(c)

RECURSIVE Positional(_, _, _)
\* The value of the digits s in the base, -1 when one of them is no digit
Positional(s, base, acc) ==
    IF s = <<>> THEN acc
    ELSE LET d == IF base = 16 THEN HexValue(Head(s)) ELSE DecValue(Head(s))
         IN  IF d < 0 THEN -1 ELSE Positional(Tail(s), base, acc * base + d)

\* int(x, 0): a string is read as a Python literal, with the 0x prefix for
\* hexadecimal and no leading zero on a decimal that is not zero; anything
\* else is a ValueError; an integer with an explicit base is a TypeError
int_base0(x) ==
    IF "int" \in DOMAIN x THEN [raised |-> "TypeError"]
    ELSE LET s == x.str
             hex == Len(s) > 2 /\ s[1] = "0" /\ s[2] = "x"
             v == IF s = <<>> THEN -1
                  ELSE IF hex THEN Positional(SubSeq(s, 3, Len(s)), 16, 0)
                  ELSE Positional(s, 10, 0)
         IN  IF v < 0 \/ (~hex /\ Len(s) > 1 /\ s[1] = "0" /\ v # 0)
             THEN [raised |-> "ValueError"]
             ELSE [value |-> v]

RECURSIVE UpToColon(_)
UpToColon(s) ==
    IF s = <<>> \/ Head(s) = ":" THEN <<>> ELSE <<Head(s)>> \o UpToColon(Tail(s))

\* slaveid.split(":")[0]; an integer has no split
split_first(x) ==
    IF "int" \in DOMAIN x THEN [raised |-> "AttributeError"] ELSE [str |-> UpToColon(x.str)]

\* device_name.startswith("WBIO-")
DeviceTypes == {"WB-MR6C", "WBIO-DI-WD-14"}
IsWBIO(device_name) == device_name = "WBIO-DI-WD-14"

SlaveIdValues ==
    {[str |-> <<"1", "2">>], [str |-> <<"0", "x", "1", "a">>], [str |-> <<"a">>],
     [str |-> <<"0", "1">>], [str |-> <<"2", ":", "1">>], [int |-> 12]}

DeviceEntries == [enabled : BOOLEAN, device_type : DeviceTypes, slave_id : SlaveIdValues]

NoEntry == [enabled |-> FALSE]

ConfigIdle ==
    /\ cf_pc = "idle"
    /\ cf_i = 0
    /\ cf_j = 0
    /\ cf_devices = {}
    /\ found_devices = {}
    /\ cf_last = NoEntry
    /\ cf_error = "none"

\* What the body of the inner loop does with one enabled entry: the device
\* to add, "skip" after the ValueError, or the exception that leaves the scan
scan_entry(serial_device) ==
    LET wbio == IsWBIO(serial_device.device_type)
        device_name == IF wbio THEN "WB-MIO" ELSE serial_device.device_type
        slaveid == IF wbio THEN split_first(serial_device.slave_id) ELSE serial_device.slave_id
    IN  IF "raised" \in DOMAIN slaveid THEN slaveid
        ELSE LET parsed_slaveid == int_base0(slaveid)
             IN  IF "value" \in DOMAIN parsed_slaveid
                 THEN [device |-> <<device_name, parsed_slaveid.value>>]
                 ELSE IF parsed_slaveid.raised = "ValueError" THEN [skip |-> TRUE]
                 ELSE parsed_slaveid

\* The outer loop: the next port, taken only when enabled, or the end of
\* the configuration
ScanPort ==
    /\ cf_pc = "ports"
    /\ \/ /\ cf_pc' = "returned"
          /\ UNCHANGED <<cf_i, cf_j, cf_devices>>
       \/ /\ cf_i < MaxConfigPorts
          /\ cf_i' = cf_i + 1
          /\ \E port_enabled \in BOOLEAN :
                cf_pc' = IF port_enabled THEN "devices" ELSE "ports"
          /\ cf_j' = 0
          /\ cf_devices' = {}
    /\ cf_last' = NoEntry
    /\ UNCHANGED <<found_devices, cf_error>>
    /\ UNCHANGED restOfCf

\* The inner loop: the next device entry of the port, or the end of the
\* port, whose devices are then put into found_devices
ScanDevice ==
    /\ cf_pc = "devices"
    /\ \/ /\ found_devices' = found_devices \cup {<<cf_i, d>> : d \in cf_devices}
          /\ cf_pc' = "ports"
          /\ cf_last' = NoEntry
          /\ UNCHANGED <<cf_j, cf_devices, cf_error>>
       \/ /\ cf_j < MaxConfigDevices
          /\ cf_j' = cf_j + 1
          /\ \E serial_device \in DeviceEntries :
                /\ cf_last' = serial_device
                /\ IF ~serial_device.enabled
                   THEN UNCHANGED <<cf_pc, cf_devices, cf_error>>
                   ELSE LET r == scan_entry(serial_device)
                        IN  IF "raised" \in DOMAIN r
                            THEN /\ cf_pc' = "raised"
                                 /\ cf_error' = r.raised
                                 /\ UNCHANGED cf_devices
                            ELSE /\ cf_devices' = IF "device" \in DOMAIN r
                                                  THEN cf_devices \cup {r.device}
                                                  ELSE cf_devices
                                 /\ UNCHANGED <<cf_pc, cf_error>>
          /\ UNCHANGED found_devices
    /\ UNCHANGED <<cf_i>>
    /\ UNCHANGED restOfCf

(***************************************************************************)
(* update_monitor.py, the saves into the identity store that precede a     *)
(* reboot to the bootloader: flash_alive_device saves its device and       *)
(* flashes it; _update_all has probe_all_devices save every alive device   *)
(* and then flashes the devices to update one after another.  The devices  *)
(* are the slave ids 1..ua_n of one port, all of them alive.               *)
(***************************************************************************)
\* The alive devices of the configuration
MaxAlive == 101

NoReboot == [slaveid |-> 0]

UpdateIdle ==
    /\ ua_pc = "idle"
    /\ ua_call = "none"
    /\ ua_n = 0
    /\ ua_i = 0
    /\ ua_db = <<>>
    /\ ua_reboot = NoReboot

\* The fw_signature the device reports
signature_of(slaveid) == IF slaveid % 2 = 1 THEN "wbA" ELSE "wbB"

\* _do_flash reaching reboot_to_bootloader for the device, with what the
\* store holds for it at that moment
reboot_record(slaveid, records) ==
    [slaveid |-> slaveid, stored |-> get_fw_signature(records, slaveid, PORT)]

\* probe_all_devices: db.save for the next alive device
ProbeSave ==
    /\ ua_pc = "probe_all_devices"
    /\ IF ua_i < ua_n
       THEN /\ ua_i' = ua_i + 1
            /\ ua_db' = save(ua_db, ua_i + 1, PORT, signature_of(ua_i + 1))
            /\ ua_pc' = ua_pc
       ELSE /\ ua_i' = 0
            /\ ua_pc' = "to_perform"
            /\ ua_db' = ua_db
    /\ UNCHANGED <<ua_call, ua_n, ua_reboot>>
    /\ UNCHANGED restOfUa

\* _update_all, the loop over cmd_status["to_perform"]: the next device is
\* one to update, and is rebooted to the bootloader, or it is not
FlashNext ==
    /\ ua_pc = "to_perform"
    /\ IF ua_i < ua_n
       THEN /\ ua_i' = ua_i + 1
            /\ \/ ua_reboot' = reboot_record(ua_i + 1, ua_db)
               \/ ua_reboot' = NoReboot
            /\ ua_pc' = ua_pc
       ELSE /\ ua_pc' = "returned"
            /\ UNCHANGED <<ua_i, ua_reboot>>
    /\ UNCHANGED <<ua_call, ua_n, ua_db>>
    /\ UNCHANGED restOfUa

\* flash_alive_device: db.save of the device
SaveAliveDevice ==
    /\ ua_pc = "flash_alive_device"
    /\ ua_db' = save(ua_db, ua_i, PORT, signature_of(ua_i))
    /\ ua_pc' = "_do_flash"
    /\ UNCHANGED <<ua_call, ua_n, ua_i, ua_reboot>>
    /\ UNCHANGED restOfUa

\* flash_alive_device: _do_flash of the device, when an update is due
FlashAliveDevice ==
    /\ ua_pc = "_do_flash"
    /\ \/ ua_reboot' = reboot_record(ua_i, ua_db)
       \/ ua_reboot' = NoReboot
    /\ ua_pc' = "returned"
    /\ UNCHANGED <<ua_call, ua_n, ua_i, ua_db>>
    /\ UNCHANGED restOfUa

(***************************************************************************)
(* update_monitor.py, _update_all, with fw_downloader.download_remote_file:*)
(* the first loop downloads the release of every device to update, the     *)
(* last loop flashes the paths it was given.  The content of a url is      *)
(* written as the url itself.                                              *)
(***************************************************************************)
\* The alive devices that _update_all goes through
MaxUpdated == 3

\* @lru_cache(maxsize=3)
lru_maxsize == 3

\* The release endpoints of the firmware signatures
Endpoints == {"wbA.wbfw", "wbB.wbfw"}

\* f'tmp{CONFIG["FW_EXTENSION"]}'
DEFAULT_FNAME == "tmp.wbfw"

NoFlash == [device |-> 0]

FilesIdle ==
    /\ fs_pc = "idle"
    /\ fs_i = 0
    /\ fs_files = <<>>
    /\ fs_cache = <<>>
    /\ to_perform = <<>>
    /\ fs_j = 0
    /\ fs_flash = NoFlash

\* download_remote_file: the name from Content-Disposition, the default
\* name when the response has no such header
file_path(content_disposition) ==
    IF content_disposition # "None" THEN content_disposition ELSE DEFAULT_FNAME

\* The headers a response for the url may carry: none, or the file's name
ContentDispositions(url_path) == {"None", url_path}

\* lru_cache: the entry of the url, 0 when there is none
cached(cache, url_path) ==
    LET hits == {k \in 1..Len(cache) : cache[k].url = url_path}
    IN  IF hits = {} THEN 0 ELSE CHOOSE k \in hits : TRUE

\* lru_cache: the entry becomes the most recent one, the least recent one
\* goes when there are more than maxsize
remember(cache, entry) ==
    LET k == cached(cache, entry.url)
        others == IF k = 0 THEN cache ELSE pop(cache, k)
        all == Append(others, entry)
    IN  IF Len(all) > lru_maxsize THEN Tail(all) ELSE all

\* The files after fh.write(content) to the path
written(files, path, content) ==
    [p \in DOMAIN files \cup {path} |-> IF p = path THEN content ELSE files[p]]

\* _update_all, the first loop: the next alive device is up to date, or its
\* release is downloaded and the device put into to_perform with the path
DownloadRelease ==
    /\ fs_pc = "download"
    /\ IF fs_i < MaxUpdated
       THEN /\ fs_i' = fs_i + 1
            /\ \/ UNCHANGED <<fs_files, fs_cache, to_perform>>
               \/ \E url_path \in Endpoints :
                    LET k == cached(fs_cache, url_path)
                    IN  IF k # 0
                        THEN /\ fs_cache' = remember(fs_cache, fs_cache[k])
                             /\ to_perform' = Append(to_perform,
                                    [device |-> fs_i + 1, url |-> url_path, fpath |-> fs_cache[k].fpath])
                             /\ fs_files' = fs_files
                        ELSE \E header \in ContentDispositions(url_path) :
                             /\ fs_files' = written(fs_files, file_path(header), url_path)
                             /\ fs_cache' = remember(fs_cache, [url |-> url_path, fpath |-> file_path(header)])
                             /\ to_perform' = Append(to_perform,
                                    [device |-> fs_i + 1, url |-> url_path, fpath |-> file_path(header)])
            /\ fs_pc' = fs_pc
       ELSE /\ fs_pc' = "to_perform"
            /\ UNCHANGED <<fs_i, fs_files, fs_cache, to_perform>>
    /\ UNCHANGED <<fs_j, fs_flash>>
    /\ UNCHANGED restOfFs

\* _update_all, the last loop: _do_flash of the next device of to_perform
\* with the file that is at its path
FlashDownloaded ==
    /\ fs_pc = "to_perform"
    /\ IF fs_j < Len(to_perform)
       THEN /\ fs_j' = fs_j + 1
            /\ fs_flash' = [device |-> to_perform[fs_j + 1].device,
                            url |-> to_perform[fs_j + 1].url,
                            content |-> fs_files[to_perform[fs_j + 1].fpath]]
            /\ fs_pc' = fs_pc
       ELSE /\ fs_pc' = "returned"
            /\ UNCHANGED <<fs_j, fs_flash>>
    /\ UNCHANGED <<fs_i, fs_files, fs_cache, to_perform>>
    /\ UNCHANGED restOfFs

\* The groups of the single operations, unused
LateIdle ==
    /\ WakeIdle
    /\ StopbitsIdle
    /\ SpinnerIdle
    /\ ConfigIdle
    /\ UpdateIdle
    /\ FilesIdle

LibIdle ==
    /\ StoreIdle /\ RecoverIdle /\ BindingsIdle /\ TransportIdle
    /\ ArbitrationIdle /\ DownloadIdle /\ LateIdle

AllIdleButWk ==
    /\ DecideIdle /\ FlashIdle /\ OrchIdle /\ ProbeIdle
    /\ StoreIdle /\ RecoverIdle /\ BindingsIdle /\ TransportIdle
    /\ ArbitrationIdle /\ DownloadIdle
    /\ StopbitsIdle
    /\ SpinnerIdle
    /\ ConfigIdle
    /\ UpdateIdle
    /\ FilesIdle

AllIdleButSb ==
    /\ DecideIdle /\ FlashIdle /\ OrchIdle /\ ProbeIdle
    /\ StoreIdle /\ RecoverIdle /\ BindingsIdle /\ TransportIdle
    /\ ArbitrationIdle /\ DownloadIdle
    /\ WakeIdle
    /\ SpinnerIdle
    /\ ConfigIdle
    /\ UpdateIdle
    /\ FilesIdle

AllIdleButSp ==
    /\ DecideIdle /\ FlashIdle /\ OrchIdle /\ ProbeIdle
    /\ StoreIdle /\ RecoverIdle /\ BindingsIdle /\ TransportIdle
    /\ ArbitrationIdle /\ DownloadIdle
    /\ WakeIdle
    /\ StopbitsIdle
    /\ ConfigIdle
    /\ UpdateIdle
    /\ FilesIdle

AllIdleButCf ==
    /\ DecideIdle /\ FlashIdle /\ OrchIdle /\ ProbeIdle
    /\ StoreIdle /\ RecoverIdle /\ BindingsIdle /\ TransportIdle
    /\ ArbitrationIdle /\ DownloadIdle
    /\ WakeIdle
    /\ StopbitsIdle
    /\ SpinnerIdle
    /\ UpdateIdle
    /\ FilesIdle

AllIdleButUa ==
    /\ DecideIdle /\ FlashIdle /\ OrchIdle /\ ProbeIdle
    /\ StoreIdle /\ RecoverIdle /\ BindingsIdle /\ TransportIdle
    /\ ArbitrationIdle /\ DownloadIdle
    /\ WakeIdle
    /\ StopbitsIdle
    /\ SpinnerIdle
    /\ ConfigIdle
    /\ FilesIdle

AllIdleButFs ==
    /\ DecideIdle /\ FlashIdle /\ OrchIdle /\ ProbeIdle
    /\ StoreIdle /\ RecoverIdle /\ BindingsIdle /\ TransportIdle
    /\ ArbitrationIdle /\ DownloadIdle
    /\ WakeIdle
    /\ StopbitsIdle
    /\ SpinnerIdle
    /\ ConfigIdle
    /\ UpdateIdle

(***************************************************************************)
(* Specifications.                                                         *)
(***************************************************************************)
InitDecide ==
    /\ dec_pc = "call"
    /\ actual_version \in Versions
    /\ provided_version \in Versions
    /\ force_reflash \in BOOLEAN
    /\ allow_downgrade \in BOOLEAN
    /\ user_input \in UserInputs
    /\ decision = NoDecision
    /\ FlashIdle
    /\ OrchIdle
    /\ ProbeIdle
    /\ LibIdle

NextDecide == Decide

SpecDecide == InitDecide /\ [][NextDecide]_vars

FileSizes == 0..MaxFileBytes

InitFlash ==
    /\ DecideIdle
    /\ LibIdle
    /\ OrchIdle
    /\ ProbeIdle
    /\ fl_pc = "bl_settings"
    /\ df_args = NoArgs
    /\ port_settings \in Settings
    /\ in_bl_settings = "none"
    /\ fw_file \in {MkFile(L, seed) : L \in FileSizes, seed \in 0..MaxSeed}
    /\ info_block = <<>>
    /\ chunks = <<>>
    /\ chunk_i = 0
    /\ bus = <<>>
    /\ fl_error = "none"
    /\ prompts = <<>>
    /\ free_space = -1

NextFlash == FlashSteps

SpecFlash == InitFlash /\ [][NextFlash]_vars

\* direct_flash with every combination of its flags, on files around the INFO block
\* and of up to MaxDirectChunks chunks.
DirectFileSizes ==
    {L \in FileSizes :
        \/ L \in (2 * INFO_BLOCK_LENGTH - 1)..(2 * INFO_BLOCK_LENGTH + 2)
        \/ \E k \in 1..MaxDirectChunks :
              L = 2 * (INFO_BLOCK_LENGTH + k * DATA_BLOCK_LENGTH)}

InitDirect ==
    /\ DecideIdle
    /\ LibIdle
    /\ OrchIdle
    /\ ProbeIdle
    /\ fl_pc = "bl_settings"
    /\ df_args \in DirectFlashArgs
    /\ port_settings \in Settings
    /\ in_bl_settings = "none"
    /\ fw_file \in {MkFile(L, 0) : L \in DirectFileSizes}
    /\ info_block = <<>>
    /\ chunks = <<>>
    /\ chunk_i = 0
    /\ bus = <<>>
    /\ fl_error = "none"
    /\ prompts = <<>>
    /\ free_space = -1

SpecDirect == InitDirect /\ [][NextFlash]_vars

\* _do_flash for a firmware target or for a bootloader target.
InitOrch ==
    /\ DecideIdle
    /\ LibIdle
    /\ FlashIdle
    /\ ProbeIdle
    /\ orch_pc = "check"
    /\ wbfw_mode \in {MODE_FW, MODE_BOOTLOADER}
    /\ actual_bl_version \in Versions
    /\ IF wbfw_mode = MODE_FW
       THEN /\ wbfw_version = <<1, 0, 0, 1>>
            /\ latest_remote_version \in Versions
            /\ local_version_exists \in BOOLEAN
            /\ interactive \in BOOLEAN
       ELSE /\ wbfw_version \in Versions
            /\ latest_remote_version = <<1, 0, 0, 1>>
            /\ local_version_exists = TRUE
            /\ interactive = FALSE
    /\ orch_force \in BOOLEAN
    /\ orch_input \in (IF orch_force \/ wbfw_mode = MODE_BOOTLOADER THEN {""} ELSE PromptInputs)
    /\ bl_to_flash = NoImage
    /\ do_check_userdata_saving = FALSE
    /\ orch_log = <<>>
    /\ orch_error = "none"
    /\ \E settings \in Settings, response_timeout \in ResponseTimeouts :
          /\ connection = [settings |-> settings, response_timeout |-> response_timeout]
          /\ serial = [settings |-> settings, timeout |-> response_timeout]
    /\ initial_settings = NoCapture

NextOrch == OrchSteps

SpecOrch == InitOrch /\ [][NextOrch]_vars

\* probe_all_devices over a configuration of one enabled port.
InitProbe ==
    /\ DecideIdle
    /\ LibIdle
    /\ FlashIdle
    /\ OrchIdle
    /\ pb_pc = "config"
    /\ uart_params \in Settings
    /\ enabled \in [Devices -> BOOLEAN]
    /\ devices_on_port = <<>>
    /\ pb_i = 0
    /\ step = "sn"
    /\ cur = NewCur(0)
    /\ result = [b \in BucketNames |-> <<>>]
    /\ db \in {<<>>, <<[slaveid |-> 1, port |-> PORT, fw_signature |-> "wbB"]>>}
    /\ pb_error = "none"

NextProbe == ProbeSteps

SpecProbe == InitProbe /\ [][NextProbe]_vars

\* The identity store: an empty store (no file yet) under a cap
InitStore ==
    /\ DecideIdle
    /\ FlashIdle
    /\ OrchIdle
    /\ ProbeIdle
    /\ RecoverIdle
    /\ BindingsIdle
    /\ TransportIdle
    /\ ArbitrationIdle
    /\ DownloadIdle
    /\ LateIdle
    /\ st_pc = "ready"
    /\ MAXLEN \in 1..MaxCap
    /\ container = <<>>
    /\ saved = [key \in StoreKeys |-> "None"]
    /\ evicted = {}
    /\ last_save = NoCall
    /\ got = NoCall

NextStore == Save \/ Get

SpecStore == InitStore /\ [][NextStore]_vars

\* Recovery: the devices probe_all_devices found in bootloader, the store as
\* earlier runs left it
RecoverStores ==
    {<<>>,
     <<[slaveid |-> 1, port |-> PORT, fw_signature |-> "wbB"]>>,
     <<[slaveid |-> 1, port |-> OTHER_PORT, fw_signature |-> "wbA"],
       [slaveid |-> 2, port |-> PORT, fw_signature |-> "wbA"],
       [slaveid |-> 1, port |-> PORT, fw_signature |-> "wbA"]>>}

InitRecover ==
    /\ DecideIdle
    /\ FlashIdle
    /\ OrchIdle
    /\ ProbeIdle
    /\ st_pc = "db"
    /\ MAXLEN = MAX_DB_RECORDS
    /\ container \in RecoverStores
    /\ saved = <<>> /\ evicted = {} /\ last_save = NoCall /\ got = NoCall
    /\ BindingsIdle
    /\ TransportIdle
    /\ ArbitrationIdle
    /\ DownloadIdle
    /\ LateIdle
    /\ rc_pc = "restore"
    /\ \E S \in SUBSET Devices, read \in [Devices -> ForcedReads], sig \in [Devices -> FwSignatures] :
          \E order \in Orderings(S) :
             in_bootloader = [i \in 1..Cardinality(S) |->
                                [dev |-> order[i], read |-> read[order[i]], sig |-> sig[order[i]]]]
    /\ rc_i = 1
    /\ cmd_status = [b \in StatusNames |-> <<>>]
    /\ rc_log = <<>>
    /\ rc_error = "none"

NextRecover == RecoverSteps

SpecRecover == InitRecover /\ [][NextRecover]_vars

\* The settings an instrument is constructed with
InitialSettings == {<<9600, "N", 2>>, <<115200, "N", 2>>, <<57600, "E", 1>>}

FindEnvs ==
    [ok : {{}} \cup {{c} : c \in Combinations}, bad : {{}, {<<115200, "N", 2>>}}]

InitBindings ==
    /\ DecideIdle
    /\ FlashIdle
    /\ OrchIdle
    /\ ProbeIdle
    /\ StoreIdle
    /\ RecoverIdle
    /\ TransportIdle
    /\ ArbitrationIdle
    /\ DownloadIdle
    /\ LateIdle
    /\ mb_settings \in InitialSettings
    /\ mb_initial = mb_settings
    /\ mb_i = 1
    /\ mb_log = <<>>
    /\ mb_result = <<>>
    /\ \/ /\ mb_call = "reboot_to_bootloader"
          /\ mb_pc = "reboot"
          /\ mb_env = <<>>
       \/ /\ mb_call = "find_uart_settings"
          /\ mb_pc = "find"
          /\ mb_env \in FindEnvs
       \/ /\ mb_call = "write_u16_regs"
          /\ mb_pc = "forced"
          /\ mb_env \in [1..ALLOWED_UNSUCCESSFUL_TRIES -> ForceOutcomes]

NextBindings == RebootSteps \/ FindSteps \/ ForcedCall

SpecBindings == InitBindings /\ [][NextBindings]_vars

\* The transport: no port has been read from yet (_latest_read_times is empty)
InitTransport ==
    /\ DecideIdle
    /\ FlashIdle
    /\ OrchIdle
    /\ ProbeIdle
    /\ StoreIdle
    /\ RecoverIdle
    /\ BindingsIdle
    /\ ArbitrationIdle
    /\ DownloadIdle
    /\ LateIdle
    /\ handle_local_echo \in BOOLEAN
    /\ since_read = [q \in Ports |-> MINIMUM_SILENT_PERIOD]
    /\ since_frame = [q \in Ports |-> MINIMUM_SILENT_PERIOD]
    /\ last_outcome = [q \in Ports |-> "none"]
    /\ last_frame = NoFrame

NextTransport == Communicate \/ Tick

SpecTransport == InitTransport /\ [][NextTransport]_vars

\* Arbitration: any set of holders of the port
InitArbitration ==
    /\ DecideIdle
    /\ FlashIdle
    /\ OrchIdle
    /\ ProbeIdle
    /\ StoreIdle
    /\ RecoverIdle
    /\ BindingsIdle
    /\ TransportIdle
    /\ ar_pc = "stop_clients"
    /\ holders \in SUBSET ProcessNames
    /\ ar_force \in BOOLEAN
    /\ ar_input \in UserInputs
    /\ termios \in TermiosSettings
    /\ initial_termios = "none"
    /\ ar_log = <<>>
    /\ ar_error = "none"
    /\ DownloadIdle
    /\ LateIdle

NextArbitration == ArbitrationSteps

SpecArbitration == InitArbitration /\ [][NextArbitration]_vars

\* The tool runs on: a step that can be taken is taken
SpecArbitrationLive == SpecArbitration /\ WF_vars(NextArbitration)

(***************************************************************************)
(* C1: no direct_flash call of _do_flash is made for a bootloader image    *)
(* lower than the bootloader version of the device, neither for the        *)
(* requested image nor for the automatic bootloader update; a request for  *)
(* such a bootloader image ends with an error before the reboot.           *)
(***************************************************************************)
BootloaderDowngrades ==
    {i \in 1..Len(orch_log) :
        /\ orch_log[i].ev = "direct_flash"
        /\ orch_log[i].image = MODE_BOOTLOADER
        /\ orch_log[i].res = "ok"
        /\ VersionLess(orch_log[i].version, actual_bl_version)}

C1_NoBootloaderDowngrade ==
    /\ BootloaderDowngrades = {}
    /\ (/\ wbfw_mode = MODE_BOOTLOADER
        /\ VersionLess(wbfw_version, actual_bl_version)
        /\ orch_pc \notin {"idle", "check"}) =>
            /\ orch_pc = "raised"
            /\ orch_error \in {"UpdateDeviceError"} \cup ModbusErrors \cup {"TooOldDeviceError"}
            /\ orch_log = <<>>

\* The explicit path alone: a lower bootloader image is refused before the reboot.
C1_ExplicitRefused ==
    (/\ wbfw_mode = MODE_BOOTLOADER
     /\ VersionLess(wbfw_version, actual_bl_version)
     /\ orch_pc \notin {"idle", "check"}) =>
        /\ orch_pc = "raised"
        /\ orch_log = <<>>

(***************************************************************************)
(* C2: for versions with equal major numbers is_reflash_necessary returns  *)
(* (flash, none) when equal and forced, (skip, is_actual) when equal and   *)
(* not forced, (flash, none) when provided > actual, (flash, none) when    *)
(* provided < actual and downgrade is allowed, (skip, gone_ahead) when     *)
(* provided < actual and downgrade is not allowed.                         *)
(***************************************************************************)
C2_DecisionTable ==
    (dec_pc = "done" /\ Major(actual_version) = Major(provided_version)) =>
        LET r  == <<decision.do_flash, decision.skip_reason>>
            eq == actual_version = provided_version
            up == VersionLess(actual_version, provided_version)
            dn == VersionLess(provided_version, actual_version)
        IN  /\ (eq /\ force_reflash) => r = <<TRUE, "none">>
            /\ (eq /\ ~force_reflash) => r = <<FALSE, "is_actual">>
            /\ up => r = <<TRUE, "none">>
            /\ (dn /\ allow_downgrade) => r = <<TRUE, "none">>
            /\ (dn /\ ~allow_downgrade) => r = <<FALSE, "gone_ahead">>

C2_Witness ==
    /\ dec_pc = "done"
    /\ Major(actual_version) = Major(provided_version)
    /\ VersionLess(provided_version, actual_version)
    /\ ~allow_downgrade
    /\ decision.skip_reason = "gone_ahead"

(***************************************************************************)
(* C3: when the comparison yields flash and the major numbers differ, the  *)
(* result is flash exactly when the user confirms or force is set; the     *)
(* user is really prompted exactly when force is not set; and when the     *)
(* comparison yields skip the prompt is not triggered.                     *)
(***************************************************************************)
C3_MajorGate ==
    (dec_pc = "done" /\ Major(actual_version) # Major(provided_version)) =>
        LET up == VersionLess(actual_version, provided_version)
            cmp_flash == up \/ allow_downgrade
        IN  /\ cmp_flash =>
                /\ decision.asked
                /\ decision.do_flash = (force_reflash \/ StartsWithY(user_input))
                /\ decision.input_read = ~force_reflash
            /\ ~cmp_flash =>
                /\ ~decision.asked /\ ~decision.input_read
                /\ ~decision.do_flash

C3_Witness ==
    /\ dec_pc = "done"
    /\ Major(actual_version) # Major(provided_version)
    /\ ~force_reflash
    /\ decision.input_read
    /\ ~decision.do_flash
    /\ decision.skip_reason = "none"

(***************************************************************************)
(* What the bus log says.                                                  *)
(***************************************************************************)
ImageWrites == {i \in 1..Len(bus) : bus[i].reg \in {INFO_BLOCK_START, DATA_BLOCK_START}}

ChunkAttempts(k) == {i \in 1..Len(bus) : bus[i].reg = DATA_BLOCK_START /\ bus[i].idx = k}

\* The write of chunk k was given up: its last attempt failed.
ChunkFailed(k) ==
    /\ ChunkAttempts(k) # {}
    /\ \A i \in ChunkAttempts(k) : bus[i].out # "ok"

InfoWritten == \E i \in 1..Len(bus) : bus[i].reg = INFO_BLOCK_START /\ bus[i].out = "ok"

RECURSIVE Flatten(_)
Flatten(ss) == IF ss = <<>> THEN <<>> ELSE Head(ss) \o Flatten(Tail(ss))

Parsed == fl_pc \in {"check", "info", "data", "done"}

(***************************************************************************)
(* C4: in the DATA phase a failed chunk write is not fatal unless the      *)
(* immediately following chunk write also fails: a flash that ended with   *)
(* FlashingError in the DATA phase has two consecutive failed chunks (or   *)
(* failed on its last chunk, which has no following one).                  *)
(***************************************************************************)
C4_TransientTolerance ==
    (fl_pc = "failed" /\ fl_error = "FlashingError" /\ InfoWritten) =>
        \/ \E k \in 1..(Len(chunks) - 1) : ChunkFailed(k) /\ ChunkFailed(k + 1)
        \/ ChunkFailed(Len(chunks))

BadFile == Len(fw_file) % 2 = 1 \/ Len(fw_file) \div 2 < INFO_BLOCK_LENGTH

C6_BadFileRejected ==
    BadFile =>
        /\ bus = <<>>
        /\ fl_pc # "done"
        /\ fl_pc = "failed" => fl_error = "IncorrectFwError"

C6_Witness ==
    /\ Len(fw_file) % 2 = 1
    /\ Len(fw_file) > 2 * INFO_BLOCK_LENGTH
    /\ fl_pc = "failed"
    /\ fl_error = "IncorrectFwError"
    /\ bus = <<>>

C6_WitnessShort ==
    /\ Len(fw_file) % 2 = 0
    /\ Len(fw_file) \div 2 < INFO_BLOCK_LENGTH
    /\ fl_pc = "failed"
    /\ fl_error = "IncorrectFwError"
    /\ bus = <<>>

(***************************************************************************)
(* C7: with the user-data check enabled and an image that does not         *)
(* preserve user data, INFO or DATA is written only after the user         *)
(* confirmed or with force; when the user declines, direct_flash ends      *)
(* with UserCancelledError and no INFO or DATA write.                      *)
(***************************************************************************)
UserdataAnswers == {i \in 1..Len(prompts) : prompts[i].q = "userdata"}

NotPreservedCase ==
    /\ df_args.do_check_userdata_saving
    /\ free_space >= 0
    /\ free_space <= Len(chunks)

C7_UserdataConfirmed ==
    NotPreservedCase =>
        /\ ImageWrites # {} =>
              \/ df_args.force
              \/ \E i \in UserdataAnswers : StartsWithY(prompts[i].input)
        /\ (\E i \in UserdataAnswers : prompts[i].shown /\ ~StartsWithY(prompts[i].input)) =>
              /\ fl_pc = "failed"
              /\ fl_error = "UserCancelledError"
              /\ ImageWrites = {}
        /\ fl_pc \in {"info", "data", "done"} => UserdataAnswers # {}

C7_Witness ==
    /\ NotPreservedCase
    /\ ~df_args.force
    /\ \E i \in UserdataAnswers : ~StartsWithY(prompts[i].input)
    /\ fl_error = "UserCancelledError"

C7_WitnessConfirmed ==
    /\ NotPreservedCase
    /\ ~df_args.force
    /\ \E i \in UserdataAnswers : StartsWithY(prompts[i].input)
    /\ fl_pc = "done"
    /\ Len(chunks) >= 1

(***************************************************************************)
(* What the buckets say.                                                   *)
(***************************************************************************)
EntriesOf(d, b) == {i \in 1..Len(result[b]) : result[b][i].dev = d}

BucketsOf(d) == {b \in BucketNames : EntriesOf(d, b) # {}}

InExactlyOneBucket(d) ==
    /\ Cardinality(BucketsOf(d)) = 1
    /\ \A b \in BucketsOf(d) : Cardinality(EntriesOf(d, b)) = 1

\* The device probed last has been put into bucket b.
Classified(b) == cur.bucket = b /\ BucketsOf(cur.dev) = {b}

ProbeSucceeds(env, settings) ==
    /\ env.wr[settings] = "SlaveReportedException"
    /\ env.sid[settings] # "ok"

C9_BootloaderProbe ==
    cur.bucket \in {"in_bootloader", "disconnected"} =>
        LET answered == \/ ProbeSucceeds(cur.env, uart_params)
                        \/ ProbeSucceeds(cur.env, SerialSettings_9600_N_2)
        IN  /\ Classified("in_bootloader") <=> answered
            /\ Classified("disconnected") <=> ~answered

(***************************************************************************)
(* C10: a device whose serial-number read ends with exception 04 or with   *)
(* ValueError is put into foreign; so is a device that passes the          *)
(* serial-number and fw_signature reads and then fails device_signature,   *)
(* fw_version or uptime with a ModbusException; a device whose             *)
(* serial-number read gets no response is never put into foreign.          *)
(***************************************************************************)
C10_ForeignClassification ==
    /\ cur.sn \in {"SlaveReportedException", "ValueError"} => Classified("foreign")
    /\ (cur.sn = "ok" /\ cur.fw_sig = "ok" /\ cur.rest \in ModbusErrors) =>
            Classified("foreign")
    /\ cur.sn = "NoResponseError" =>
            /\ "foreign" \notin BucketsOf(cur.dev)
            /\ cur.bucket # "none" =>
                    \/ Classified("in_bootloader")
                    \/ Classified("disconnected")

C10_Witness ==
    /\ pb_pc = "returned"
    /\ cur.sn = "ok"
    /\ cur.fw_sig = "ok"
    /\ cur.rest = "NoResponseError"
    /\ Classified("foreign")

C10_WitnessSilent ==
    /\ pb_pc = "returned"
    /\ cur.sn = "NoResponseError"
    /\ Classified("disconnected")

(***************************************************************************)
(* C11: probe_all_devices calls db.save(slaveid, port, fw_signature) for   *)
(* every device it puts into alive, after which the record of the device   *)
(* is the last one of the store; for a device it puts into any other       *)
(* bucket it makes no save and the store is as it was before the device    *)
(* was probed.                                                             *)
(***************************************************************************)
C11_SavedIffAlive ==
    cur.bucket # "none" =>
        IF Classified("alive")
        THEN /\ Len(cur.stored) = 1
             /\ cur.stored[1].slaveid = cur.dev /\ cur.stored[1].port = PORT
             /\ db # <<>> /\ db[Len(db)] = cur.stored[1]
        ELSE /\ cur.stored = <<>>
             /\ db = cur.db0

C11_Witness ==
    /\ pb_pc = "returned"
    /\ Classified("alive")
    /\ result["too_old_to_update"] # <<>>
    /\ cur.db0 # <<>>
    /\ db # cur.db0

(***************************************************************************)
(* C12: starting from an empty store, after any sequence of JsonDB.save    *)
(* calls the container holds at most MAXLEN (CONFIG["MAX_DB_RECORDS"])     *)
(* records, and no two of them have the same (port, slaveid) pair.         *)
(***************************************************************************)
C12_CappedAndUnique ==
    st_pc = "ready" =>
        /\ Len(container) <= MAXLEN
        /\ \A i, j \in 1..Len(container) :
              (container[i].slaveid = container[j].slaveid
                  /\ container[i].port = container[j].port) => i = j

C12_Witness ==
    /\ st_pc = "ready"
    /\ MAXLEN = MaxCap
    /\ Len(container) = MAXLEN
    /\ last_save # NoCall /\ last_save.present /\ last_save.full
    /\ evicted # {}

(***************************************************************************)
(* C13: get_fw_signature(slaveid, port) returns the signature most         *)
(* recently saved for that pair, unless the record has been evicted since; *)
(* for a pair never saved, or evicted since its last save, it returns      *)
(* None.                                                                   *)
(***************************************************************************)
Expected(key) ==
    IF saved[key] # "None" /\ key \notin evicted THEN saved[key] ELSE "None"

C13_MostRecentOrNone ==
    st_pc = "ready" =>
        /\ got # NoCall => got.fw_signature = Expected(<<got.slaveid, got.port>>)
        /\ \A key \in StoreKeys :
              get_fw_signature(container, key[1], key[2]) = Expected(key)

C13_Witness ==
    /\ st_pc = "ready"
    /\ got # NoCall /\ got.slaveid = 1 /\ got.port = OTHER_PORT
    /\ got.fw_signature = "wbA"
    /\ \E i \in 1..Len(container) :
          container[i].slaveid = 1 /\ container[i].port = PORT
              /\ container[i].fw_signature = "wbB"
    /\ \E key \in evicted : saved[key] # "None"
    /\ \E key \in StoreKeys : saved[key] = "None"

(***************************************************************************)
(* C14: a save puts the saved record at the tail and keeps the relative    *)
(* order of the other records; a record is evicted only when the length    *)
(* would otherwise exceed the cap, and it is the record at the head;       *)
(* saving again a pair that is present in a full store evicts nothing.     *)
(* With the cap at 3, saving 1 into a store holding 1, 2, 3 leaves 2, 3, 1.*)
(***************************************************************************)
SlaveIdsOf(records) == [i \in 1..Len(records) |-> records[i].slaveid]

C14_SaveStep ==
    LET key == <<last_save'.slaveid, last_save'.port>>
        Others(r) == <<r.slaveid, r.port>> # key
        without == SelectSeq(container, Others)
        rest == SubSeq(container', 1, Len(container') - 1)
        dropped == Len(without) - Len(rest)
    IN  /\ container' # <<>>
        /\ <<container'[Len(container')].slaveid, container'[Len(container')].port>> = key
        /\ dropped \in {0, 1}
        /\ rest = SubSeq(without, dropped + 1, Len(without))
        /\ dropped = 1 <=> Len(without) + 1 > MAXLEN
        /\ (last_save'.present /\ last_save'.full) => KeysOf(container') = KeysOf(container)
        /\ (MAXLEN = 3 /\ SlaveIdsOf(container) = <<1, 2, 3>> /\ KeysOf(container) \subseteq ((1..3) \X {PORT})
              /\ key = <<1, PORT>>) => SlaveIdsOf(container') = <<2, 3, 1>>

C14_TailAndHeadEviction ==
    [][(st_pc = "ready" /\ (container' # container \/ last_save' # last_save)) => C14_SaveStep]_vars

C14_Witness ==
    /\ st_pc = "ready"
    /\ MAXLEN = 3
    /\ SlaveIdsOf(container) = <<2, 3, 1>>
    /\ KeysOf(container) \subseteq ((1..3) \X {PORT})
    /\ last_save # NoCall /\ last_save.slaveid = 1 /\ last_save.port = PORT
    /\ last_save.present /\ last_save.full
    /\ evicted = {}

(***************************************************************************)
(* C15: for a device found in bootloader, recovery uses the fw_signature   *)
(* read from the bootloader when that read succeeds; it consults the       *)
(* identity store only when the read fails; when neither yields a          *)
(* signature the device is put to the not recovered ones and nothing is    *)
(* downloaded or flashed for it.                                           *)
(***************************************************************************)
Logged(e, dev) == \E k \in 1..Len(rc_log) : rc_log[k].ev = e /\ rc_log[k].dev = dev

ToPerform == {cmd_status["to_perform"][k] : k \in 1..Len(cmd_status["to_perform"])}

Skipped == {cmd_status["skipped"][k] : k \in 1..Len(cmd_status["skipped"])}

StoredSignatures(dev) ==
    {container[k].fw_signature : k \in {n \in 1..Len(container) :
                                          container[n].slaveid = dev /\ container[n].port = PORT}}

\* The devices of in_bootloader the first loop has gone through
Restored ==
    IF rc_pc = "restore" \/ (rc_pc = "raised" /\ rc_error = "ValueError")
    THEN rc_i - 1 ELSE Len(in_bootloader)

C15_WitnessFromStore ==
    /\ rc_pc = "returned"
    /\ \E i \in 1..Len(in_bootloader) :
          /\ in_bootloader[i].read = "IllegalRequestError"
          /\ StoredSignatures(in_bootloader[i].dev) # {}
          /\ Logged("flash", in_bootloader[i].dev)
          /\ in_bootloader[i].dev \in {cmd_status["ok"][k] : k \in 1..Len(cmd_status["ok"])}

(***************************************************************************)
(* C16: reboot_to_bootloader raises TooOldDeviceError when, after the      *)
(* write of 1 to register 129 and the wait, the device still answers the   *)
(* slave_id read; it returns normally only when that read is not answered. *)
(***************************************************************************)
RebootRechecked ==
    /\ mb_call = "reboot_to_bootloader"
    /\ Len(mb_log) = 4
    /\ mb_log[2].op = "write_u16" /\ mb_log[2].reg = REBOOT_TO_BOOTLOADER_REG
    /\ mb_log[3].op = "sleep"
    /\ mb_log[4].op = "read_u16" /\ mb_log[4].reg = SLAVEID_REG

C16_TooOldWhenStillAnswering ==
    mb_call = "reboot_to_bootloader" =>
        /\ (RebootRechecked /\ mb_log[4].out = "ok") =>
                mb_pc = "raised" /\ mb_result = <<"TooOldDeviceError">>
        /\ mb_pc = "returned" => (RebootRechecked /\ mb_log[4].out # "ok")

\* What the code does: no call of reboot_to_bootloader ends with
\* TooOldDeviceError, and it returns when the device has answered
C16_NeverTooOld ==
    mb_call = "reboot_to_bootloader" =>
        /\ mb_result # <<"TooOldDeviceError">>
        /\ (RebootRechecked /\ mb_log[4].out = "ok") => mb_pc = "returned"

(***************************************************************************)
(* C17: find_uart_settings runs the probe under every combination of the   *)
(* allowed baudrates, parities and stopbits before it raises               *)
(* UARTSettingsNotFoundError, and it stops at the first combination whose  *)
(* probe succeeds.                                                         *)
(***************************************************************************)
ProbedUnder == {mb_log[k].settings : k \in 1..Len(mb_log)}

C17_EveryCombinationProbed ==
    mb_call = "find_uart_settings" =>
        /\ (mb_pc = "raised" /\ mb_result = <<"UARTSettingsNotFoundError">>) =>
                Combinations \subseteq ProbedUnder
        /\ \A k \in 1..Len(mb_log) : mb_log[k].out = "ok" =>
                (k = Len(mb_log) /\ mb_pc = "returned")

\* What the code does: the probe runs under the initial settings and then under
\* the combinations but the last one
C17_AllButTheLastProbed ==
    (mb_call = "find_uart_settings" /\ mb_result = <<"UARTSettingsNotFoundError">>) =>
        /\ Len(mb_log) = Len(product)
        /\ mb_log[1].settings = mb_initial
        /\ \A k \in 2..Len(mb_log) : mb_log[k].settings = product[k - 1]
        /\ mb_settings = product[Len(product)]

(***************************************************************************)
(* C18: when find_uart_settings succeeds it returns the settings under     *)
(* which the probe succeeded and leaves the instrument configured with     *)
(* exactly those settings.                                                 *)
(***************************************************************************)
C18_LeftOnFoundSettings ==
    (mb_call = "find_uart_settings" /\ mb_pc = "returned") =>
        /\ mb_result = mb_log[Len(mb_log)].settings
        /\ mb_log[Len(mb_log)].out = "ok"
        /\ mb_settings = mb_result

\* What the code does: the found settings are returned and the instrument is
\* set back to the settings it had at the call
C18_ReturnsFoundRestoresInitial ==
    (mb_call = "find_uart_settings" /\ mb_pc = "returned") =>
        /\ mb_result = mb_log[Len(mb_log)].settings
        /\ mb_log[Len(mb_log)].out = "ok"
        /\ mb_settings = mb_initial

C18_Witness ==
    /\ mb_call = "find_uart_settings"
    /\ mb_pc = "returned"
    /\ mb_result = <<1200, "O", 1>>
    /\ mb_settings = <<115200, "N", 2>>
    /\ Len(mb_log) > 1

(***************************************************************************)
(* C19: a typed Modbus operation makes at most ALLOWED_UNSUCCESSFUL_TRIES  *)
(* attempts, stops at the first successful one and returns, makes another  *)
(* attempt only after a ModbusException or a ValueError (any other         *)
(* exception leaves at once), and when all attempts fail raises the error  *)
(* of the last attempt.                                                    *)
(***************************************************************************)
C19_BoundedRetry ==
    (mb_call = "write_u16_regs" /\ mb_pc # "forced") =>
        LET n == Len(mb_log) IN
        /\ n \in 1..ALLOWED_UNSUCCESSFUL_TRIES
        /\ \A k \in 1..n : mb_log[k].out = mb_env[k]
        /\ \A k \in 1..(n - 1) : mb_log[k].out \in ModbusErrors \cup {"ValueError"}
        /\ n < ALLOWED_UNSUCCESSFUL_TRIES => mb_log[n].out \notin ModbusErrors \cup {"ValueError"}
        /\ IF mb_log[n].out = "ok"
           THEN mb_pc = "returned"
           ELSE mb_pc = "raised" /\ mb_result = <<mb_log[n].out>>

C19_Witness ==
    /\ mb_call = "write_u16_regs"
    /\ mb_pc = "raised"
    /\ Len(mb_log) = ALLOWED_UNSUCCESSFUL_TRIES
    /\ mb_log[1].out = "NoResponseError"
    /\ mb_result = <<"ValueError">>

C19_WitnessPropagated ==
    /\ mb_call = "write_u16_regs"
    /\ mb_pc = "raised"
    /\ Len(mb_log) = 1
    /\ mb_result = <<"SerialException">>
    /\ mb_env[ALLOWED_UNSUCCESSFUL_TRIES] = "ok"

(***************************************************************************)
(* C20: on each port the silence before an outgoing frame, counted from    *)
(* the end of the outgoing frame before it on that port, is at least 3.5   *)
(* character times, whatever the earlier transaction ended with (success,  *)
(* no response, local echo mismatch) and whichever device of the port it   *)
(* was for.                                                                *)
(***************************************************************************)
C20_InterFrameSilence ==
    (last_frame # NoFrame /\ last_frame.earlier # "none") =>
        last_frame.silence >= MINIMUM_SILENT_PERIOD

\* Without local echo handling the silence is kept
C20_SilenceWithoutLocalEcho ==
    (last_frame # NoFrame /\ last_frame.earlier # "none" /\ ~handle_local_echo) =>
        last_frame.silence >= MINIMUM_SILENT_PERIOD

\* The silence is short only after a local echo mismatch
C20_ShortOnlyAfterEchoMismatch ==
    (last_frame # NoFrame /\ last_frame.earlier \in {"success", "no response"}) =>
        last_frame.silence >= MINIMUM_SILENT_PERIOD

(***************************************************************************)
(* C21: stop_clients sends the pause signal to the holders of the port     *)
(* only if there is at least one holder and, when a holder other than the  *)
(* default serial driver exists, only after the user confirmed or force    *)
(* was given; if the user rejects, the run aborts and no signal is sent.   *)
(***************************************************************************)
Signals(signal) == {i \in 1..Len(ar_log) : ar_log[i].ev = "signal" /\ ar_log[i].signal = signal}

\* The user confirmed, or force was given, before the i-th entry of the log
ConfirmedBefore(i) ==
    \E k \in 1..(i - 1) :
        /\ ar_log[k].ev = "ask_user"
        /\ ~ar_log[k].shown \/ StartsWithY(ar_log[k].input)

Rejected ==
    \E k \in 1..Len(ar_log) :
        ar_log[k].ev = "ask_user" /\ ar_log[k].shown /\ ~StartsWithY(ar_log[k].input)

C21_PauseOnlyConfirmed ==
    ar_pc # "idle" =>
        /\ \A i \in Signals("-STOP") :
              /\ holders # {}
              /\ (holders \ {DEFAULT_CLIENT} # {}) => ConfirmedBefore(i)
        /\ Rejected => (ar_pc = "exited" /\ Signals("-STOP") = {} /\ Signals("-CONT") = {})

(***************************************************************************)
(* C21 amended: the holders that count are those that are not socat        *)
(* processes: the signal is sent only if there is such a holder, and the   *)
(* confirmation is needed when one of them is not the default driver.      *)
(***************************************************************************)
C21_PauseOnlyConfirmedButSocat ==
    ar_pc # "idle" =>
        /\ \A i \in Signals("-STOP") :
              /\ holders \ {"socat"} # {}
              /\ ar_log[i].to = holders
              /\ (holders \ {DEFAULT_CLIENT, "socat"} # {}) => ConfirmedBefore(i)
        /\ Rejected => (ar_pc = "exited" /\ Signals("-STOP") = {} /\ Signals("-CONT") = {})
        /\ (ar_pc \notin {"stop_clients", "exited"} /\ holders \ {"socat"} # {}) =>
              Signals("-STOP") # {}

C21_Witness ==
    /\ holders = ProcessNames
    /\ ~ar_force
    /\ Signals("-STOP") # {}
    /\ \E k \in 1..Len(ar_log) : ar_log[k].ev = "ask_user" /\ ar_log[k].shown

C21_WitnessRejected ==
    /\ DEFAULT_CLIENT \in holders
    /\ Rejected
    /\ ar_pc = "exited"

(***************************************************************************)
(* C22: every process paused by the arbitration is eventually resumed      *)
(* when the work on the port ends, however the work ends, and it is        *)
(* resumed only after the termios settings of the port were restored.      *)
(***************************************************************************)
Paused == Signals("-STOP") # {}

Resumed == \E i \in Signals("-CONT") : ar_log[i].to = holders

RestoredBefore(i) ==
    /\ ar_log[i].termios = initial_termios
    /\ \E k \in 1..(i - 1) : ar_log[k].ev = "tcsetattr" /\ ar_log[k].termios = initial_termios

ExpectedErrorKinds ==
    {"FlashingError", "WBRemoteStorageError", "NoReleasedFwError", "UserCancelledError"}
        \cup ModbusExceptions

C23_ExpectedFailureNeverAborts ==
    rc_pc = "raised" => rc_error \notin ExpectedErrorKinds

\* What does hold: a flashing or remote-storage failure is bucketed as skipped
\* and the loop goes on to the next device
C23_FlashingAndStorageAreBucketed ==
    [][(rc_pc = "recover" /\ rc_log' # rc_log /\ rc_pc' = "recover")
          => /\ rc_i' = rc_i + 1
             /\ \/ cmd_status'["skipped"] = Append(cmd_status["skipped"], cmd_status["to_perform"][rc_i][1])
                \/ cmd_status'["ok"] = Append(cmd_status["ok"], cmd_status["to_perform"][rc_i][1])]_vars

(***************************************************************************)
(* C24: probe_all_devices and the bulk loops visit the devices of a port   *)
(* in the order in which the driver configuration lists them.  The         *)
(* configuration of the model lists the devices 1, 2, ... in this order.   *)
(***************************************************************************)
ConfigurationOrder(devs) == \A i, j \in 1..Len(devs) : i < j => devs[i] < devs[j]

C24_VisitedInConfigurationOrder ==
    pb_pc \notin {"idle", "config"} =>
        ConfigurationOrder(devices_on_port)

\* What does hold: every enabled device is visited once
C24_EveryEnabledDeviceOnce ==
    pb_pc \notin {"idle", "config"} =>
        /\ {devices_on_port[i] : i \in 1..Len(devices_on_port)} = {d \in Devices : enabled[d]}
        /\ Len(devices_on_port) = Cardinality({d \in Devices : enabled[d]})

(***************************************************************************)
(* C25: _do_download resolves 'release' without a branch to the version    *)
(* and endpoint of the release manifest, 'release' with a branch to        *)
(* 'latest' on that branch, 'latest' to the latest version number of the   *)
(* selected branch, downloaded then, and an explicit version to that       *)
(* version downloaded directly.                                            *)
(***************************************************************************)
Downloaded == dl_call.name = "_do_download" /\ dl_pc = "returned"

LatestNumberAsked ==
    dl_call.retrieve_latest_vnum /\ ~(dl_call.branch # "" /\ dl_call.mode = MODE_BOOTLOADER)

C25_WitnessRelease ==
    /\ Downloaded
    /\ dl_call.version = "release"
    /\ dl_call.branch = ""
    /\ dl_result[3] = "1.0.0"

(***************************************************************************)
(* C26: get_request tries the URL at most `tries` times, returns the first *)
(* successful response, and raises WBRemoteStorageError when every attempt *)
(* fails with a URL, HTTP or socket error.                                 *)
(***************************************************************************)
Requested == dl_call.name = "get_request"

C26_AtMostTriesThenRemoteStorageError ==
    Requested =>
        LET tries == dl_call.tries
            failed == \A k \in 1..tries : dl_env[k] \in UrlopenErrors
        IN  /\ Len(dl_log) <= tries
            /\ \A k \in 1..Len(dl_log) : dl_log[k].out = dl_env[k]
            /\ dl_pc = "returned" =>
                  /\ dl_result = <<"response", Len(dl_log)>>
                  /\ dl_env[Len(dl_log)] = "response"
                  /\ \A k \in 1..(Len(dl_log) - 1) : dl_env[k] \in UrlopenErrors
            /\ (dl_pc \in {"returned", "raised"} /\ failed) =>
                  /\ dl_pc = "raised"
                  /\ dl_result = <<"WBRemoteStorageError">>
                  /\ Len(dl_log) = tries
            /\ (dl_pc = "raised" /\ dl_result = <<"WBRemoteStorageError">>) => failed

C26_Witness ==
    /\ Requested
    /\ dl_call.tries = DEFAULT_TRIES
    /\ dl_pc = "raised"
    /\ dl_result = <<"WBRemoteStorageError">>
    /\ Len(dl_log) = DEFAULT_TRIES

C26_WitnessLastTry ==
    /\ Requested
    /\ dl_call.tries = DEFAULT_TRIES
    /\ dl_pc = "returned"
    /\ dl_result = <<"response", DEFAULT_TRIES>>

(***************************************************************************)
(* C27: flash_in_bl sends no DATA chunk until the INFO block write to      *)
(* 0x1000 has succeeded, sends the DATA chunks strictly in file order to   *)
(* register 0x2000, and completes successfully only after every chunk has  *)
(* been written; a failed INFO write sends no DATA at all.                 *)
(***************************************************************************)
DataWrites == {i \in 1..Len(bus) : bus[i].reg = DATA_BLOCK_START}

InfoWrites == {i \in 1..Len(bus) : bus[i].reg = INFO_BLOCK_START}

C27_InfoThenDataInFileOrder ==
    fl_pc # "idle" =>
        /\ \A i \in DataWrites : \E j \in InfoWrites : j < i /\ bus[j].out = "ok"
        /\ \A i \in InfoWrites : bus[i].out = "ok" => \A j \in InfoWrites : j <= i
        /\ \A i \in DataWrites :
              /\ bus[i].idx \in 1..Len(chunks)
              /\ bus[i].len = Len(chunks[bus[i].idx])
              /\ \A k \in 1..(bus[i].idx - 1) :
                    \E j \in DataWrites : j < i /\ bus[j].idx = k /\ bus[j].out = "ok"
              /\ \A j \in DataWrites :
                    j < i => /\ bus[j].idx <= bus[i].idx
                             /\ bus[j].out = "ok" => bus[j].idx < bus[i].idx
        /\ fl_pc = "done" =>
              /\ InfoWritten
              /\ \A k \in 1..Len(chunks) :
                    \E i \in DataWrites : bus[i].idx = k /\ bus[i].out = "ok"
        /\ (fl_pc = "failed" /\ ~InfoWritten) => DataWrites = {}

C27_Witness ==
    /\ fl_pc = "done"
    /\ Len(chunks) >= 2
    /\ \E i \in DataWrites : bus[i].idx = 1 /\ bus[i].out # "ok"
    /\ \E i \in InfoWrites : bus[i].out # "ok"

C27_WitnessInfoFailed ==
    /\ fl_pc = "failed"
    /\ chunks # <<>>
    /\ InfoWrites # {}
    /\ ~InfoWritten
    /\ DataWrites = {}

(***************************************************************************)
(* C29: in the flasher an IllegalRequestError of the device becomes        *)
(* NotInBootloaderError, for the INFO write and for the reset_uart and     *)
(* reset_eeprom commands (each a write of one register); any other         *)
(* ModbusException becomes FlashingError for the INFO write and            *)
(* BootloaderCmdError for a bootloader command.                            *)
(***************************************************************************)
BootloaderCmdRegs == {UART_SETTINGS_RESET_REG, EEPROM_ERASE_REG}

Translated(out, other) == IF out = "IllegalRequestError" THEN "NotInBootloaderError" ELSE other

C29_ErrorTranslation ==
    /\ \A i \in 1..Len(bus) : bus[i].reg \in BootloaderCmdRegs => bus[i].len = 1
    /\ (bus # <<>> /\ Last(bus).out # "ok") =>
          /\ fl_pc = "failed"
          /\ Last(bus).reg = INFO_BLOCK_START =>
                fl_error = Translated(Last(bus).out, "FlashingError")
          /\ Last(bus).reg \in BootloaderCmdRegs =>
                fl_error = Translated(Last(bus).out, "BootloaderCmdError")

C29_Witness ==
    /\ fl_pc = "failed"
    /\ bus # <<>>
    /\ Last(bus).reg = EEPROM_ERASE_REG
    /\ Last(bus).out = "IllegalRequestError"
    /\ \E i \in 1..Len(bus) : bus[i].reg = UART_SETTINGS_RESET_REG /\ bus[i].out = "ok"

C29_WitnessInfo ==
    /\ fl_pc = "failed"
    /\ bus # <<>>
    /\ Last(bus).reg = INFO_BLOCK_START
    /\ Last(bus).out = "NoResponseError"
    /\ fl_error = "FlashingError"

(***************************************************************************)
(* C28: _do_flash performs its device operations in this order: the        *)
(* reboot to the bootloader; then the bootloader image when a bootloader   *)
(* update was chosen for a firmware target, flashed without the user-data  *)
(* check; then the requested image; then, when the requested image was a   *)
(* bootloader, the released firmware.  No image is written before the      *)
(* reboot.                                                                 *)
(***************************************************************************)
Image(mode, version, check) == [image |-> mode, version |-> version, check_userdata |-> check]

\* The images _do_flash has to write, in order
ImagesToWrite ==
    (IF bl_to_flash # NoImage THEN <<Image(MODE_BOOTLOADER, bl_to_flash, FALSE)>> ELSE <<>>)
    \o <<Image(wbfw_mode, wbfw_version, do_check_userdata_saving)>>
    \o (IF wbfw_mode = MODE_BOOTLOADER
        THEN <<Image(MODE_FW, NoImage, do_check_userdata_saving)>>
        ELSE <<>>)

\* The calls of direct_flash made so far, in order
ImagesWritten ==
    [k \in 1..(Len(orch_log) - 1) |->
        Image(orch_log[k + 1].image, orch_log[k + 1].version, orch_log[k + 1].check_userdata)]

C28_RebootThenImagesInOrder ==
    (orch_pc # "idle" /\ orch_log # <<>>) =>
        /\ orch_log[1].ev = "reboot"
        /\ \A k \in 2..Len(orch_log) : orch_log[k].ev = "direct_flash"
        /\ Len(ImagesWritten) <= Len(ImagesToWrite)
        /\ ImagesWritten = SubSeq(ImagesToWrite, 1, Len(ImagesWritten))
        /\ \A k \in 2..(Len(orch_log) - 1) : orch_log[k].res = "ok"
        /\ bl_to_flash # NoImage => wbfw_mode = MODE_FW
        /\ orch_pc \in {"restore", "done"} =>
              /\ ImagesWritten = ImagesToWrite
              /\ orch_log[Len(orch_log)].res = "ok"

C28_Witness ==
    /\ orch_pc = "done"
    /\ wbfw_mode = MODE_FW
    /\ bl_to_flash # NoImage
    /\ do_check_userdata_saving
    /\ Len(orch_log) = 3

C28_WitnessBootloaderTarget ==
    /\ orch_pc = "done"
    /\ wbfw_mode = MODE_BOOTLOADER
    /\ Len(orch_log) = 3
    /\ orch_log[3].image = MODE_FW

C30_WitnessReturned ==
    /\ orch_pc = "done"
    /\ connection.settings # SerialSettings_9600_N_2
    /\ Len(orch_log) = 3

\* The probe write of a call: made at 9600-N-2 with the timeout raised by
\* BOOTLOADER_INFOBLOCK_MAGIC_TIMEOUT over the one the connection had
ProbeWriteMade(k) ==
    /\ wk_log[k].call = "write_u16_regs"
    /\ wk_log[k].conn.settings = SerialSettings_9600_N_2
    /\ wk_log[k].conn.serial_timeout = wk_before.serial_timeout + BOOTLOADER_INFOBLOCK_MAGIC_TIMEOUT

\* C31: is_in_bootloader makes its probe write at 9600-N-2 with the response
\* timeout raised by 1.0 s, and whenever control is outside the probe (the
\* method has returned or raised, with exception 04, another Modbus error,
\* no error or a non-Modbus exception from the write) the connection's
\* settings, response_timeout and serial timeout are those before the call.
C31_ProbeLeavesConnectionAsFound ==
    /\ \A k \in 1..Len(wk_log) : wk_log[k].call = "write_u16_regs" => ProbeWriteMade(k)
    /\ wk_pc \in {"returned", "raised", "check", "while", "get_slave_addr", "switch"} => wk_conn = wk_before

\* C31 witness: a probe on a connection not at 9600-N-2 ended with a
\* non-Modbus exception from the write
C31_Witness ==
    /\ wk_call = "is_in_bootloader"
    /\ wk_pc = "raised"
    /\ wk_before.settings # SerialSettings_9600_N_2
    /\ Len(wk_log) = 2
    /\ wk_log[2].call = "write_u16_regs"
    /\ wk_log[2].out = "ValueError"

\* C40: wait_for_wake_up returns False only after at least min_tries probes,
\* and returns True only if one of its slave_id reads was answered.
C40_TrueOnlyIfASlaveIdReadAnswered ==
    (wk_call = "wait_for_wake_up" /\ wk_pc = "returned") =>
        /\ wk_result = "False" => wk_tries >= min_tries
        /\ wk_result = "True" =>
            \E k \in 1..Len(wk_log) : wk_log[k].call = "get_slave_addr" /\ wk_log[k].out = "ok"

\* C38: during one flash every DATA chunk goes to the device at most once; a
\* chunk whose write failed is not sent again.
C38_EachChunkSentAtMostOnce ==
    \A i \in DataWrites, j \in DataWrites : bus[i].idx = bus[j].idx => i = j

\* C37: for a file that fails the WBFW validation direct_flash sends no erase
\* command (reset_uart, reset_eeprom) to the device.
C37_NoEraseForAnInvalidFile ==
    BadFile => \A i \in 1..Len(bus) : bus[i].reg \notin BootloaderCmdRegs

\* C39: the version in the DownloadedWBFW that _do_download returns is never
\* one of the labels 'latest' and 'release', whatever the version, branch
\* and mode asked for (retrieve_latest_vnum left at its default, as every
\* caller does).
C39_ReturnedVersionIsNoLabel ==
    (Downloaded /\ dl_call.retrieve_latest_vnum) => dl_result[3] \notin {"latest", "release"}

\* C32: the line goes to one stop bit only when the output buffer is empty
\* and input is waiting; NoResponseError is raised when both buffers are
\* empty at the end of the timeout; and after every transaction, returned or
\* raised, the stop bits are the configured ones.
C32_StopbitsAsConfiguredAfterEveryTransaction ==
    /\ \A k \in 1..Len(sb_log) : sb_log[k].out_waiting = 0 /\ sb_log[k].in_waiting > 0
    /\ sb_pc \in {"returned", "raised"} => sb_stopbits = sb_configured

\* C33: a step of the worker of the spinner changes nothing but the progress
\* bar (and its own position), and once control has passed the join of the
\* finally clause, also when the body raised, the stop flag is set and the
\* worker has terminated.
C33_WorkerOnlyDisplaysAndEndsBeforeLeaving ==
    /\ [](sp_pc \in {"close", "left", "raised"} => (stop_event /\ worker_pc = "terminated"))
    /\ [][Worker => UNCHANGED <<sp_pc, sp_work, sp_exc, stop_event>>]_vars

\* C33 witness: the context left by an exception of its body after the
\* worker had updated the bar
C33_Witness ==
    /\ sp_pc = "raised"
    /\ sp_exc
    /\ pbar.n > 0
    /\ pbar.closed
    /\ worker_pc = "terminated"

\* The context is always left in the end: the join does not wait for ever
C33_ContextIsLeft == <>(sp_pc \in {"left", "raised"})

\* C34: only enabled devices of enabled ports are taken; an enabled device
\* whose slave_id is a string or an integer holding a number is taken with
\* that number; and no slave_id makes the scan end with an exception: a
\* device whose slave_id is no number is skipped and the scan goes on.
C34_SlaveIdNeverAbortsTheScan ==
    /\ cf_pc # "raised"
    /\ (cf_pc = "devices" /\ cf_last # NoEntry /\ cf_last.enabled
            /\ cf_last.slave_id \in {[int |-> 12], [str |-> <<"1", "2">>]}) =>
            \E d \in cf_devices : d[2] = 12

\* C35: whenever a device is rebooted to the bootloader, in
\* flash_alive_device or in _update_all with any number of devices, the
\* identity store maps its (port, slaveid) to its fw_signature.
C35_StoreKnowsTheDeviceAtReboot ==
    ua_reboot # NoReboot => ua_reboot.stored = signature_of(ua_reboot.slaveid)

\* C36: the file at the path handed to _do_flash for a device of _update_all
\* holds, when the device is flashed, what was downloaded from that device's
\* release endpoint.
C36_FlashedFileIsTheDevicesOwn ==
    fs_flash # NoFlash => fs_flash.content = fs_flash.url

\* C9 on a port configured at 9600-N-2, where both probes are the same one.
C9_At9600N2 == uart_params = SerialSettings_9600_N_2 => C9_BootloaderProbe

\* One call of get_request, or one of _do_download
InitDownload ==
    /\ DecideIdle
    /\ FlashIdle
    /\ OrchIdle
    /\ ProbeIdle
    /\ StoreIdle /\ RecoverIdle /\ BindingsIdle /\ TransportIdle /\ ArbitrationIdle
    /\ LateIdle
    /\ dl_i = 0
    /\ dl_log = <<>>
    /\ dl_result = <<>>
    /\ \/ /\ dl_pc = "get_request"
          /\ \E tries \in 0..DEFAULT_TRIES : dl_call = [name |-> "get_request", tries |-> tries]
          /\ dl_env \in [1..(DEFAULT_TRIES + 1) -> UrlopenOutcomes]
       \/ /\ dl_pc = "_do_download"
          /\ \E version \in SpecifiedVersions, branch \in Branches, mode \in Modes,
                retrieve_latest_vnum \in BOOLEAN :
                dl_call = [name |-> "_do_download", version |-> version, branch |-> branch,
                           mode |-> mode, retrieve_latest_vnum |-> retrieve_latest_vnum]
          /\ \E released \in Releases, failing \in Failing :
                dl_env = [released |-> released, failing |-> failing]

NextDownload == DownloadSteps

SpecDownload == InitDownload /\ [][NextDownload]_vars

\* One call of is_in_bootloader or of wait_for_wake_up on a connection made
\* by the constructor: the serial timeout is the response timeout
InitWake ==
    /\ AllIdleButWk
    /\ wk_call \in {"is_in_bootloader", "wait_for_wake_up"}
    /\ wk_pc = IF wk_call = "wait_for_wake_up" THEN "while" ELSE "get_slave_addr"
    /\ \E s \in Settings, t \in WakeTimeouts :
        wk_conn = [settings |-> s, response_timeout |-> t, serial_timeout |-> t]
    /\ wk_before = wk_conn
    /\ wk_initial = NoWakeConn
    /\ wk_tries = 0
    /\ wk_expired = FALSE
    /\ wk_answer = "none"
    /\ wk_log = <<>>
    /\ wk_result = "none"

NextWake == WakeHead \/ GetSlaveAddr \/ SwitchToBootloaderParams \/ ProbeWrite \/ WakeCheck

SpecWake == InitWake /\ [][NextWake]_vars

\* An instrument set up with one or two stop bits, about to make its first
\* transaction
InitStopbits ==
    /\ AllIdleButSb
    /\ sb_pc = "write"
    /\ sb_echo \in BOOLEAN
    /\ sb_configured \in {1, 2}
    /\ sb_stopbits = sb_configured
    /\ sb_initial = 0
    /\ out_waiting = 0
    /\ in_waiting = 0
    /\ sb_expired = FALSE
    /\ sb_n = 1
    /\ sb_log = <<>>
    /\ sb_result = "none"

NextStopbits == WriteToBus \/ LineMoves \/ WaitThenSwitch \/ LocalEcho \/ ReadFromBus \/ NextTransaction

SpecStopbits == InitStopbits /\ [][NextStopbits]_vars

\* The spinner entered: the bar made, the event clear, the thread not started
InitSpinner ==
    /\ AllIdleButSp
    /\ sp_pc = "start"
    /\ sp_work = 0
    /\ sp_exc = FALSE
    /\ stop_event = FALSE
    /\ worker_pc = "not started"
    /\ pbar = NoBar

NextSpinner == StartWorker \/ Body \/ SetStopEvent \/ Join \/ Close \/ WorkerTest \/ WorkerUpdate \/ WorkerSleep

SpecSpinner == InitSpinner /\ [][NextSpinner]_vars

\* The two threads are scheduled fairly
SpinnerCaller == StartWorker \/ Body \/ SetStopEvent \/ Join \/ Close

SpecSpinnerLive == SpecSpinner /\ WF_vars(SpinnerCaller) /\ WF_vars(Worker)

\* get_devices_on_driver after the configuration file was loaded
InitConfig ==
    /\ AllIdleButCf
    /\ cf_pc = "ports"
    /\ cf_i = 0
    /\ cf_j = 0
    /\ cf_devices = {}
    /\ found_devices = {}
    /\ cf_last = NoEntry
    /\ cf_error = "none"

NextConfig == ScanPort \/ ScanDevice

SpecConfig == InitConfig /\ [][NextConfig]_vars

\* flash_alive_device of one device, or _update_all over the alive devices
\* of a configuration, on a store that starts empty
InitUpdate ==
    /\ AllIdleButUa
    /\ ua_call \in {"flash_alive_device", "_update_all"}
    /\ ua_n \in 1..MaxAlive
    /\ IF ua_call = "_update_all"
       THEN ua_pc = "probe_all_devices" /\ ua_i = 0
       ELSE ua_pc = "flash_alive_device" /\ ua_i = ua_n
    /\ ua_db = <<>>
    /\ ua_reboot = NoReboot

NextUpdate == ProbeSave \/ FlashNext \/ SaveAliveDevice \/ FlashAliveDevice

SpecUpdate == InitUpdate /\ [][NextUpdate]_vars

\* _update_all after the probe, with an empty saving directory and cache
InitFiles ==
    /\ AllIdleButFs
    /\ fs_pc = "download"
    /\ fs_i = 0
    /\ fs_files = <<>>
    /\ fs_cache = <<>>
    /\ to_perform = <<>>
    /\ fs_j = 0
    /\ fs_flash = NoFlash

NextFiles == DownloadRelease \/ FlashDownloaded

SpecFiles == InitFiles /\ [][NextFiles]_vars

Init == InitDecide \/ InitFlash \/ InitDirect \/ InitOrch \/ InitProbe \/ InitStore \/ InitRecover \/ InitBindings \/ InitTransport \/ InitArbitration \/ InitDownload \/ InitWake \/ InitStopbits \/ InitSpinner \/ InitConfig \/ InitUpdate \/ InitFiles
Next == NextDecide \/ NextFlash \/ NextOrch \/ NextProbe \/ NextStore \/ NextRecover \/ NextBindings \/ NextTransport \/ NextArbitration \/ NextDownload \/ NextWake \/ NextStopbits \/ NextSpinner \/ NextConfig \/ NextUpdate \/ NextFiles
Spec == Init /\ [][Next]_vars
====
